---------------------------- MODULE Spec2Model ----------------------------
(***************************************************************************)
(* State-machine model of the data layer of the financial analyst          *)
(* dashboard: MarketDataService (quote cache, provider fetch, simulated    *)
(* fallback, batch fan-out), NewsService (alert aggregation and cache)     *)
(* and AIFinancialService (free-text extraction into a report).            *)
(*                                                                         *)
(* Money is counted in cents, time in milliseconds.  Math.random() is a    *)
(* draw k/RandDen with k in 0..RandDen-1, and the arithmetic on it is      *)
(* exact rational arithmetic.                                              *)
(***************************************************************************)
EXTENDS Integers, Sequences, FiniteSets, TLC

(***************************************************************************)
(* Bounds of the model.                                                    *)
(***************************************************************************)
MaxBatch == 2
MaxNow == 60000
RandDen == 7
MaxFeed == 2
MaxNewsNow == 300000

(***************************************************************************)
(* JavaScript values that are not numbers, strings or objects.             *)
(***************************************************************************)
Null == [js |-> "null"]
Undefined == [js |-> "undefined"]

(***************************************************************************)
(* Symbols the services are called with: one of the base-price table and   *)
(* one that is in no table.                                                *)
(***************************************************************************)
Symbols == {"AAPL", "ZZZZ"}

\* the poll period of the dashboard, the step of the clock
PollInterval == 30000

VARIABLES
  now,              \* Date.now()
  alphaVantageKey,  \* REACT_APP_ALPHA_VANTAGE_KEY is set (both services)
  cache,            \* MarketDataService.cache, by symbol
  batchPc,          \* "idle" | "awaiting" | "resolved": getBatchStockData
  batchSymbols,     \* the argument of the getBatchStockData call
  tasks,            \* one getRealTimeStockData promise per input symbol
  batchResult,      \* the value getBatchStockData resolved with
  finnhubKey,       \* REACT_APP_FINNHUB_KEY is set (both services)
  avFeed,           \* the feed the Alpha Vantage news endpoint holds
  fhFeed,           \* the array the Finnhub news endpoint holds
  newsCache,        \* NewsService.cache.get('market_alerts')
  newsPc,           \* "idle" | "awaitAV" | "awaitFH": getMarketAlerts
  alerts,           \* the local variable alerts of getMarketAlerts
  newsReturn,       \* what the last getMarketAlerts call returned, and how
  aiCall,           \* the last generateStockAnalysis call and its outcome
  helperCall,       \* the last call of a helper of NewsService and its result
  dashboard         \* the state of FinancialAnalystDashboard

quoteVars == <<cache, batchPc, batchSymbols, tasks, batchResult>>
newsVars == <<finnhubKey, avFeed, fhFeed, newsCache, newsPc, alerts, newsReturn>>
vars == <<now, alphaVantageKey, quoteVars, newsVars, aiCall, helperCall, dashboard>>

\* the state of the dashboard after its first render with an AI service:
\* aiService stands for the service object, alert for the text of the last
\* alert() shown
DashboardStart ==
  [aiService |-> TRUE,
   selectedStock |-> Null,
   isGeneratingReport |-> FALSE,
   generatedReport |-> Null,
   aiError |-> Null,
   alert |-> Null]

(***************************************************************************)
(* Math.round(x * 100) / 100 of the rational x = num / den dollars, in     *)
(* cents when num is in cents: Math.round rounds a half towards +infinity. *)
(***************************************************************************)
RoundDiv(num, den) == (2 * num + den) \div (2 * den)

FloorDiv(num, den) == num \div den

\* the values Math.random() takes here, as numerators over RandDen: the
\* least value 0 and the greatest value below 1
RandomDraws == {0, RandDen - 1}

(***************************************************************************)
(* MarketDataService                                                       *)
(***************************************************************************)
cacheTimeout == 60000

basePrices == [AAPL |-> 180, MSFT |-> 415, NVDA |-> 450, GOOGL |-> 140,
               META |-> 500, AMZN |-> 140, TSLA |-> 240, JPM |-> 185, V |-> 245]
               @@ ("BRK.B" :> 430)

\* basePrices[symbol] || 100
BasePrice(symbol) ==
  IF symbol \in DOMAIN basePrices THEN basePrices[symbol] ELSE 100

BaseVolume(symbol) ==
  IF symbol = "AAPL" THEN 50000000
  ELSE IF symbol = "NVDA" THEN 25000000
  ELSE IF symbol = "MSFT" THEN 30000000
  ELSE 20000000

(***************************************************************************)
(* generateRealisticMockData(symbol) with the three Math.random() draws    *)
(* r1/RandDen, r2/RandDen, r3/RandDen taken in this order, at time t.      *)
(* cp is currentPrice in units of 1/(100*RandDen) dollar;                  *)
(* dc is dailyChange in units of 1/(100*RandDen).                          *)
(***************************************************************************)
\* as generateRealisticMockData, with a variation of -6% to +6%
generateMockDataWideVariation(symbol, r1, r2, r3, t) ==
  LET N == RandDen
      cp == BasePrice(symbol) * (94 * N + 12 * r1)
      dc == 4 * r2 - 2 * N
  IN [symbol |-> symbol,
      price |-> RoundDiv(cp, N),
      change |-> RoundDiv(cp * dc, 100 * N * N),
      changePercent |-> RoundDiv(100 * dc, N),
      volume |-> FloorDiv(BaseVolume(symbol) * (N + 2 * r3), 2 * N),
      high |-> RoundDiv(cp * 102, 100 * N),
      low |-> RoundDiv(cp * 98, 100 * N),
      open |-> RoundDiv(cp * (200 * N - dc), 200 * N * N),
      previousClose |-> RoundDiv(cp * (100 * N - dc), 100 * N * N),
      timestamp |-> t,
      isLive |-> FALSE,
      source |-> "Simulated (Rate Limited)"]

generateRealisticMockData(symbol, r1, r2, r3, t) ==
  LET N == RandDen
      cp == BasePrice(symbol) * (97 * N + 6 * r1)
      dc == 4 * r2 - 2 * N
  IN [symbol |-> symbol,
      price |-> RoundDiv(cp, N),
      change |-> RoundDiv(cp * dc, 100 * N * N),
      changePercent |-> RoundDiv(100 * dc, N),
      volume |-> FloorDiv(BaseVolume(symbol) * (N + 2 * r3), 2 * N),
      high |-> RoundDiv(cp * 102, 100 * N),
      low |-> RoundDiv(cp * 98, 100 * N),
      open |-> RoundDiv(cp * (200 * N - dc), 200 * N * N),
      previousClose |-> RoundDiv(cp * (100 * N - dc), 100 * N * N),
      timestamp |-> t,
      isLive |-> FALSE,
      source |-> "Simulated (Rate Limited)"]

(***************************************************************************)
(* What the provider sends back for GLOBAL_QUOTE.  A JSON object is a      *)
(* function from field names to values; a numeric string is the record     *)
(* [numeral |-> cents, suffix |-> ...].                                    *)
(***************************************************************************)
Numeral(n) == [numeral |-> n, suffix |-> ""]

EmptyObject == [f \in {} |-> Null]

GlobalQuote(symbol) ==
  LET p == BasePrice(symbol) * 100 + 50
  IN ("01. symbol" :> symbol) @@ ("02. open" :> Numeral(p - 100))
     @@ ("03. high" :> Numeral(p + 200)) @@ ("04. low" :> Numeral(p - 300))
     @@ ("05. price" :> Numeral(p)) @@ ("06. volume" :> Numeral(1000000))
     @@ ("08. previous close" :> Numeral(p - 150))
     @@ ("09. change" :> Numeral(150))
     @@ ("10. change percent" :> [numeral |-> 83, suffix |-> "%"])

\* the bodies response.json() can resolve with
ResponseBodies(symbol) ==
  { ("Information" :> "rate limit"),
    ("Error Message" :> "Invalid API call"),
    ("Note" :> "call frequency"),
    EmptyObject,
    ("Global Quote" :> EmptyObject),
    ("Global Quote" :> GlobalQuote(symbol)) }

\* the outcomes of fetch(...) followed by response.json()
ProviderOutcomes(symbol) ==
  { [kind |-> "reject", body |-> EmptyObject],
    [kind |-> "badjson", body |-> EmptyObject] }
  \cup { [kind |-> "json", body |-> b] : b \in ResponseBodies(symbol) }

\* data[f] is truthy
Truthy(data, f) == f \in DOMAIN data /\ data[f] # ""

\* s.replace('%', '')
ReplacePercent(s) == [s EXCEPT !.suffix = IF @ = "%" THEN "" ELSE @]

\* parseFloat and parseInt of a numeric string with any suffix
ParseFloat(s) == s.numeral

(***************************************************************************)
(* A function that may throw returns [threw |-> FALSE, value |-> v] or     *)
(* [threw |-> TRUE, error |-> [message |-> m]].                            *)
(***************************************************************************)
Return(v) == [threw |-> FALSE, value |-> v]
Throw(m) == [threw |-> TRUE, error |-> [message |-> m]]

parseAlphaVantageData(data, t) ==
  IF ~ ("Global Quote" \in DOMAIN data)
  THEN Throw("Invalid response format")
  ELSE LET quote == data["Global Quote"]
       IN IF ~ ("10. change percent" \in DOMAIN quote)
          THEN Throw("Cannot read properties of undefined (reading 'replace')")
          ELSE Return(
            [symbol |-> quote["01. symbol"],
             price |-> ParseFloat(quote["05. price"]),
             change |-> ParseFloat(quote["09. change"]),
             changePercent |-> ParseFloat(ReplacePercent(quote["10. change percent"])),
             volume |-> ParseFloat(quote["06. volume"]),
             high |-> ParseFloat(quote["03. high"]),
             low |-> ParseFloat(quote["04. low"]),
             open |-> ParseFloat(quote["02. open"]),
             previousClose |-> ParseFloat(quote["08. previous close"]),
             timestamp |-> t])

\* fetchAlphaVantageData(symbol) when the provider answers with outcome o
fetchAlphaVantageData(o, t) ==
  IF o.kind = "reject" THEN Throw("Failed to fetch")
  ELSE IF o.kind = "badjson" THEN Throw("Unexpected token < in JSON")
  ELSE IF Truthy(o.body, "Information")
       THEN Throw("Rate limit exceeded - using simulated data")
  ELSE IF Truthy(o.body, "Error Message") THEN Throw("API Error")
  ELSE IF Truthy(o.body, "Note") THEN Throw("API Note")
  ELSE parseAlphaVantageData(o.body, t)

\* three Math.random() draws, in the order generateRealisticMockData takes them
DrawTriples == { <<r1, r2, r1>> : r1 \in RandomDraws, r2 \in RandomDraws }

MockData(symbol, d, t) == generateRealisticMockData(symbol, d[1], d[2], d[3], t)

(***************************************************************************)
(* A getRealTimeStockData(symbol) promise: state is "pending" while the    *)
(* call awaits the provider, then "fulfilled" with the record in value or  *)
(* "rejected" with the error in value; path is the return statement taken. *)
(***************************************************************************)
Pending(symbol) ==
  [symbol |-> symbol, state |-> "pending", value |-> Undefined, path |-> "none"]

Fulfilled(symbol, v, path) ==
  [symbol |-> symbol, state |-> "fulfilled", value |-> v, path |-> path]

Rejected(symbol, e) ==
  [symbol |-> symbol, state |-> "rejected", value |-> e, path |-> "throw"]

\* the test of the cache entry with <= in place of <
CacheValidInclusive(c, symbol, t) ==
  c[symbol] # Undefined /\ t - c[symbol].timestamp <= cacheTimeout

\* cached && Date.now() - cached.timestamp < this.cacheTimeout
CacheValid(c, symbol, t) ==
  c[symbol] # Undefined /\ t - c[symbol].timestamp < cacheTimeout

\* as getRealTimeStockDataSync, without the cache lookup
getRealTimeStockDataNoCache(c, key, symbol, d, t) ==
  IF key THEN Pending(symbol)
  ELSE Fulfilled(symbol, MockData(symbol, d, t), "mock")

\* getRealTimeStockData up to its first await
getRealTimeStockDataSync(c, key, symbol, d, t) ==
  IF CacheValid(c, symbol, t) THEN Fulfilled(symbol, c[symbol].data, "cache")
  ELSE IF key THEN Pending(symbol)
  ELSE Fulfilled(symbol, MockData(symbol, d, t), "mock")

\* as CatchMarketDataError, rethrowing the error
CatchRethrows(symbol, error, d, t) == Rejected(symbol, error)

\* the catch block of getRealTimeStockData
CatchMarketDataError(symbol, error, d, t) ==
  Fulfilled(symbol, MockData(symbol, d, t), "mock")

\* getRealTimeStockData from the await on: r is what fetchAlphaVantageData gave
getRealTimeStockDataResume(symbol, r, d, t) ==
  IF r.threw THEN CatchMarketDataError(symbol, r.error, d, t)
  ELSE Fulfilled(symbol, r.value, "live")

\* as CacheAfterFetch, caching the fallback record as well
CacheAfterFetchAlways(c, task, t) ==
  IF task.state = "fulfilled"
  THEN [c EXCEPT ![task.symbol] = [data |-> task.value, timestamp |-> t]]
  ELSE c

\* as CacheAfterFetch, keeping an entry that is still valid
CacheAfterFetchFirstWins(c, task, t) ==
  IF task.path = "live" /\ ~ CacheValid(c, task.symbol, t)
  THEN [c EXCEPT ![task.symbol] = [data |-> task.value, timestamp |-> t]]
  ELSE c

\* as CacheAfterFetch, deleting the entry of a symbol whose call fell back
CacheAfterFetchEvicting(c, task, t) ==
  IF task.path = "live"
  THEN [c EXCEPT ![task.symbol] = [data |-> task.value, timestamp |-> t]]
  ELSE [c EXCEPT ![task.symbol] = Undefined]

\* this.cache after the call has settled as task
CacheAfterFetch(c, task, t) ==
  IF task.path = "live"
  THEN [c EXCEPT ![task.symbol] = [data |-> task.value, timestamp |-> t]]
  ELSE c

\* as BatchItem, with no data for a symbol that fell back
BatchItemNullOnFallback(symbol, task, d, t) ==
  IF task.state = "fulfilled" /\ task.path # "mock"
  THEN [symbol |-> symbol, data |-> task.value, error |-> Null]
  ELSE [symbol |-> symbol, data |-> Null, error |-> [message |-> "no data"]]

\* as BatchItem, with an error message on every item
BatchItemErrorAlways(symbol, task, d, t) ==
  IF task.state = "fulfilled"
  THEN [symbol |-> symbol, data |-> task.value,
        error |-> [message |-> "Unknown error"]]
  ELSE [symbol |-> symbol, data |-> MockData(symbol, d, t),
        error |-> [message |-> task.value.message]]

\* the element of the result of getBatchStockData for one settled promise
BatchItem(symbol, task, d, t) ==
  IF task.state = "fulfilled"
  THEN [symbol |-> symbol, data |-> task.value, error |-> Null]
  ELSE [symbol |-> symbol, data |-> MockData(symbol, d, t),
        error |-> [message |-> task.value.message]]

\* as BatchItems, with a simulated record for every symbol once one call
\* has fallen back
BatchItemsAllOrNothing(symbols, ts, d, t) ==
  [i \in 1 .. Len(ts) |->
     IF \E j \in 1 .. Len(ts) : ts[j].path = "mock"
     THEN [symbol |-> symbols[i], data |-> MockData(symbols[i], d[i], t),
           error |-> Null]
     ELSE BatchItem(symbols[i], ts[i], d[i], t)]

BatchItems(symbols, ts, d, t) ==
  [i \in 1 .. Len(ts) |-> BatchItem(symbols[i], ts[i], d[i], t)]

\* the symbol lists getBatchStockData is called with
BatchInputs == UNION { [1 .. n -> Symbols] : n \in 0 .. MaxBatch }

(***************************************************************************)
(* Operations of MarketDataService.                                        *)
(***************************************************************************)
\* getBatchStockData(symbols): symbols.map(...) runs every call up to its await
GetBatchStockData(symbols) ==
  /\ batchPc = "idle"
  /\ LET idx == 1 .. Len(symbols)
         drawing == { i \in idx : ~ CacheValid(cache, symbols[i], now)
                                  /\ ~ alphaVantageKey }
     IN \E dr \in [drawing -> DrawTriples] :
          LET d == [i \in idx |-> IF i \in drawing THEN dr[i] ELSE <<0, 0, 0>>]
          IN tasks' = [i \in idx |->
                 getRealTimeStockDataSync(cache, alphaVantageKey, symbols[i], d[i], now)]
  /\ batchSymbols' = symbols
  /\ batchPc' = "awaiting"
  /\ UNCHANGED <<now, alphaVantageKey, cache, batchResult, newsVars, aiCall, helperCall, dashboard>>

\* the provider call of promise i settles, with one of the provider's outcomes
FetchSettle(i) ==
  /\ batchPc = "awaiting"
  /\ i \in 1 .. Len(tasks)
  /\ tasks[i].state = "pending"
  /\ \E o \in ProviderOutcomes(tasks[i].symbol) :
     LET r == fetchAlphaVantageData(o, now)
     IN \E d \in (IF r.threw THEN DrawTriples ELSE {<<0, 0, 0>>}) :
          LET task == getRealTimeStockDataResume(tasks[i].symbol, r, d, now)
          IN /\ tasks' = [tasks EXCEPT ![i] = task]
             /\ cache' = CacheAfterFetch(cache, task, now)
  /\ UNCHANGED <<now, alphaVantageKey, batchPc, batchSymbols, batchResult,
                 newsVars, aiCall, helperCall, dashboard>>

\* as BatchResolve, without waiting for the calls that are still pending
BatchResolveEarly ==
  /\ batchPc = "awaiting"
  /\ batchResult' = [i \in 1 .. Len(tasks) |->
                       IF tasks[i].state = "fulfilled"
                       THEN BatchItem(batchSymbols[i], tasks[i], <<0, 0, 0>>, now)
                       ELSE [symbol |-> batchSymbols[i], data |-> Null, error |-> Null]]
  /\ batchPc' = "resolved"
  /\ UNCHANGED <<now, alphaVantageKey, cache, batchSymbols, tasks, newsVars, aiCall, helperCall, dashboard>>

\* Promise.allSettled resolves and the results are mapped to items
BatchResolve ==
  /\ batchPc = "awaiting"
  /\ \A i \in 1 .. Len(tasks) : tasks[i].state # "pending"
  /\ LET idx == 1 .. Len(tasks)
         drawing == { i \in idx : tasks[i].state = "rejected" }
     IN \E dr \in [drawing -> DrawTriples] :
          LET d == [i \in idx |-> IF i \in drawing THEN dr[i] ELSE <<0, 0, 0>>]
          IN batchResult' = BatchItems(batchSymbols, tasks, d, now)
  /\ batchPc' = "resolved"
  /\ UNCHANGED <<now, alphaVantageKey, cache, batchSymbols, tasks, newsVars, aiCall, helperCall, dashboard>>

\* loadLiveStockData has taken the result; the next poll can start
BatchReturn ==
  /\ batchPc = "resolved"
  /\ batchPc' = "idle"
  /\ batchSymbols' = <<>>
  /\ tasks' = <<>>
  /\ batchResult' = <<>>
  /\ UNCHANGED <<now, alphaVantageKey, cache, newsVars, aiCall, helperCall, dashboard>>

\* time passes
Tick ==
  /\ now + PollInterval <= MaxNow
  /\ now' = now + PollInterval
  /\ UNCHANGED <<alphaVantageKey, quoteVars, newsVars, aiCall, helperCall, dashboard>>

Init ==
  /\ now = 0
  /\ alphaVantageKey \in BOOLEAN
  /\ cache = [s \in Symbols |-> Undefined]
  /\ batchPc = "idle"
  /\ batchSymbols = <<>>
  /\ tasks = <<>>
  /\ batchResult = <<>>
  /\ finnhubKey \in BOOLEAN
  /\ avFeed = <<>>
  /\ fhFeed = <<>>
  /\ newsCache = Undefined
  /\ newsPc = "idle"
  /\ alerts = <<>>
  /\ newsReturn = Undefined
  /\ aiCall = [state |-> "idle"]
  /\ helperCall = [fn |-> "none"]
  /\ dashboard = DashboardStart

Next ==
  \/ \E symbols \in BatchInputs : GetBatchStockData(symbols)
  \/ \E i \in 1 .. MaxBatch : FetchSettle(i)
  \/ BatchResolve
  \/ BatchReturn
  \/ Tick

Spec == Init /\ [][Next]_vars

(***************************************************************************)
(* Properties of MarketDataService.                                        *)
(***************************************************************************)
\* the fields of QuoteRecord
QuoteRecordFields ==
  {"symbol", "price", "change", "changePercent", "volume", "high", "low",
   "open", "previousClose", "timestamp", "isLive", "source"}

\* the numeric fields every quote record carries
QuoteCoreFields == QuoteRecordFields \ {"isLive", "source"}

IsQuoteRecord(v) == QuoteCoreFields \subseteq DOMAIN v

IsSimulated(v) == "isLive" \in DOMAIN v /\ v.isLive = FALSE

Settled == { i \in 1 .. Len(tasks) : tasks[i].state # "pending" }

\* C1: the record getRealTimeStockData returns has the twelve fields symbol,
\* price, change, changePercent, volume, high, low, open, previousClose,
\* timestamp, isLive and source, whether it is live or simulated.
C1_SameFieldSet ==
  \A i \in Settled :
    tasks[i].state = "fulfilled" => DOMAIN tasks[i].value = QuoteRecordFields

\* C2: getRealTimeStockData never rejects: every settled call is fulfilled
\* with a quote record, and with a simulated one when it obtained no live
\* record.
C2_NeverRejects ==
  \A i \in Settled :
    /\ tasks[i].state = "fulfilled"
    /\ IsQuoteRecord(tasks[i].value)
    /\ tasks[i].path \in {"cache", "live", "mock"}
    /\ tasks[i].path = "mock" => IsSimulated(tasks[i].value)
    /\ tasks[i].path # "mock" => ~ IsSimulated(tasks[i].value)

\* a call whose provider fetch failed has resolved with a simulated record
C2_Witness ==
  /\ alphaVantageKey
  /\ \E i \in Settled :
       tasks[i].state = "fulfilled" /\ tasks[i].path = "mock"

\* C3: the cache holds only records of a successful provider fetch; a
\* simulated record is never cached, so a call that returns a simulated record
\* has generated it itself.
C3_CacheOnlyLive ==
  /\ \A s \in Symbols :
       cache[s] # Undefined =>
         /\ ~ IsSimulated(cache[s].data)
         /\ cache[s].data.symbol = s
  /\ \A i \in Settled :
       IsSimulated(tasks[i].value) => tasks[i].path = "mock"

\* two fallback calls for one symbol have each generated their own record and
\* the cache has no entry for the symbol
C3_Witness ==
  /\ alphaVantageKey
  /\ \E i, j \in Settled :
       /\ i < j
       /\ tasks[i].symbol = tasks[j].symbol
       /\ tasks[i].path = "mock" /\ tasks[j].path = "mock"
       /\ tasks[i].value # tasks[j].value
       /\ cache[tasks[i].symbol] = Undefined

\* C4 as stated: two calls for one symbol made less than 60 s apart (here in
\* one batch, at the same instant) return the identical record.
C4_TwoCallsIdentical ==
  \A i, j \in Settled :
    tasks[i].symbol = tasks[j].symbol => tasks[i].value = tasks[j].value

\* C4 as amended: a call made while the cache holds an entry for the symbol
\* that is less than 60 s old returns that entry's record, and neither fetches
\* nor generates.
C4_FreshEntryServed ==
  [][ (batchPc = "idle" /\ batchPc' = "awaiting") =>
        \A i \in 1 .. Len(tasks') :
          LET s == tasks'[i].symbol
          IN (cache[s] # Undefined /\ now - cache[s].timestamp < 60000) =>
               /\ tasks'[i].state = "fulfilled"
               /\ tasks'[i].path = "cache"
               /\ tasks'[i].value = cache[s].data
               /\ tasks'[i].value.timestamp = cache[s].timestamp ]_vars

\* a call was served from an entry cached 30 s earlier
C4_Witness ==
  \E i \in Settled :
    /\ tasks[i].path = "cache"
    /\ tasks[i].value.timestamp < now
    /\ now - tasks[i].value.timestamp < 60000

\* C5: getBatchStockData returns one item per input symbol, item i carrying
\* symbol i of the input, every data field a quote record.
C5_OneItemPerSymbol ==
  batchPc = "resolved" =>
    /\ Len(batchResult) = Len(batchSymbols)
    /\ \A i \in 1 .. Len(batchSymbols) :
         /\ batchResult[i].symbol = batchSymbols[i]
         /\ batchResult[i].data # Null
         /\ IsQuoteRecord(batchResult[i].data)
         /\ batchResult[i].data.symbol = batchSymbols[i]

\* a batch of a duplicated unknown symbol has resolved with every provider
\* call failed
C5_Witness ==
  /\ batchPc = "resolved"
  /\ alphaVantageKey
  /\ batchSymbols = <<"ZZZZ", "ZZZZ">>
  /\ \A i \in 1 .. Len(tasks) : tasks[i].path = "mock"
  /\ Len(batchResult) = 2

\* C6: the error field of a batch item is populated only when the live path
\* failed and the data is a simulated record; an item with a live record has
\* error = null.
C6_ErrorOnlyOnFallback ==
  batchPc = "resolved" =>
    \A i \in 1 .. Len(batchResult) :
      /\ batchResult[i].error # Null =>
           IsSimulated(batchResult[i].data) /\ tasks[i].path \notin {"live", "cache"}
      /\ ~ IsSimulated(batchResult[i].data) => batchResult[i].error = Null

\* a batch has resolved with a live record in one item and a fallback record
\* in another
C6_Witness ==
  /\ batchPc = "resolved"
  /\ \E i, j \in 1 .. Len(batchResult) :
       /\ tasks[i].path = "live"
       /\ batchResult[i].error = Null
       /\ tasks[j].path = "mock"

\* C10: with no quote provider configured, every record is simulated, with
\* isLive = false, source = "Simulated (Rate Limited)" and a price within 3%
\* of the base price of the symbol (180 for AAPL, 100 for an unknown symbol).
C10_NoProviderSimulated ==
  ~ alphaVantageKey =>
    \A i \in Settled :
      LET v == tasks[i].value
          base == IF tasks[i].symbol = "AAPL" THEN 180 ELSE 100
      IN /\ tasks[i].state = "fulfilled"
         /\ v.isLive = FALSE
         /\ v.source = "Simulated (Rate Limited)"
         /\ v.symbol = tasks[i].symbol
         /\ 97 * base <= v.price /\ v.price <= 103 * base
         /\ tasks[i].symbol = "AAPL" => (17460 <= v.price /\ v.price <= 18540)

\* with no provider, AAPL got the lowest simulated price and an unknown symbol
\* a price above its base
C10_Witness ==
  /\ ~ alphaVantageKey
  /\ \E i, j \in Settled :
       /\ tasks[i].symbol = "AAPL" /\ tasks[i].value.price = 17460
       /\ tasks[j].symbol = "ZZZZ" /\ tasks[j].value.price > 10000

(***************************************************************************)
(* NewsService                                                             *)
(***************************************************************************)
newsCacheTimeout == 300000

\* data.feed.slice(0, 5) and data.slice(0, 5)
FeedSlice == 5

\* alerts.slice(0, 10)
AlertsLimit == 10

\* alertTemplates.slice(0, 6)
SimulatedCount == 6

\* half the life of a cache entry, the step of the clock of the news service
NewsStep == newsCacheTimeout \div 2

Min(a, b) == IF a <= b THEN a ELSE b

\* s.slice(0, n) of an array or a string
Slice(s, n) == SubSeq(s, 1, Min(n, Len(s)))

(***************************************************************************)
(* A Date object is [valid |-> TRUE, time |-> ms] or the Invalid Date.     *)
(* new Date(string) parses the ISO format; the provider's compact format   *)
(* "YYYYMMDDTHHMMSS" does not parse.                                       *)
(***************************************************************************)
DateOf(t) == [valid |-> TRUE, time |-> t]

InvalidDate == [valid |-> FALSE, time |-> 0]

NewDate(x) == IF x.format = "iso" THEN DateOf(x.time) ELSE InvalidDate

(***************************************************************************)
(* Strings that are searched are sequences of characters.                  *)
(***************************************************************************)
UpperCase == <<"A", "B", "C", "D", "E", "F", "G", "H", "I", "J", "K", "L", "M",
               "N", "O", "P", "Q", "R", "S", "T", "U", "V", "W", "X", "Y", "Z">>

LowerCase == <<"a", "b", "c", "d", "e", "f", "g", "h", "i", "j", "k", "l", "m",
               "n", "o", "p", "q", "r", "s", "t", "u", "v", "w", "x", "y", "z">>

LowerChar(c) ==
  IF \E k \in 1 .. 26 : UpperCase[k] = c
  THEN LowerCase[CHOOSE k \in 1 .. 26 : UpperCase[k] = c]
  ELSE c

\* s.toLowerCase()
ToLowerCase(s) == [i \in 1 .. Len(s) |-> LowerChar(s[i])]

\* s.includes(w)
Includes(s, w) ==
  \E i \in 1 .. (Len(s) - Len(w) + 1) : SubSeq(s, i, i + Len(w) - 1) = w

bullishKeywords ==
  { <<"b", "e", "a", "t">>, <<"s", "u", "r", "g", "e">>, <<"r", "a", "l", "l", "y">>, <<"j", "u", "m", "p">>, <<"g", "a", "i", "n">>, <<"b", "u", "l", "l", "i", "s", "h">>, <<"u", "p">>, <<"r", "i", "s", "e">> }

bearishKeywords ==
  { <<"f", "a", "l", "l">>, <<"d", "r", "o", "p">>, <<"d", "e", "c", "l", "i", "n", "e">>, <<"b", "e", "a", "r">>, <<"d", "o", "w", "n">>, <<"p", "l", "u", "n", "g", "e">>, <<"c", "r", "a", "s", "h">> }

\* the classification without toLowerCase
determineAlertTypeCaseSensitive(headline) ==
  IF \E word \in bullishKeywords : Includes(headline, word) THEN "bullish"
  ELSE IF \E word \in bearishKeywords : Includes(headline, word) THEN "bearish"
  ELSE "neutral"

determineAlertTypeFromHeadline(headline) ==
  LET lowerHeadline == ToLowerCase(headline)
  IN IF \E word \in bullishKeywords : Includes(lowerHeadline, word) THEN "bullish"
     ELSE IF \E word \in bearishKeywords : Includes(lowerHeadline, word) THEN "bearish"
     ELSE "neutral"

\* the classification with >= and <= in place of > and <
determineAlertTypeInclusive(sentimentScore) ==
  IF sentimentScore # Undefined /\ sentimentScore.num >= 20 THEN "bullish"
  ELSE IF sentimentScore # Undefined /\ sentimentScore.num <= -20 THEN "bearish"
  ELSE "neutral"

\* the score is undefined or [num |-> hundredths]
determineAlertType(sentimentScore) ==
  IF sentimentScore # Undefined /\ sentimentScore.num > 20 THEN "bullish"
  ELSE IF sentimentScore # Undefined /\ sentimentScore.num < -20 THEN "bearish"
  ELSE "neutral"

\* createAlertFromNews(headline, tickerSentiment); the score of a ticker is
\* in hundredths
createAlertFromNews(headline, tickerSentiment) ==
  LET title == Slice(headline, 80)
  IN IF tickerSentiment # Null /\ Len(tickerSentiment) > 0
     THEN LET mainTicker == tickerSentiment[1]
              sentiment == mainTicker.ticker_sentiment_score
          IN IF sentiment > 20
             THEN mainTicker.ticker \o <<" ", "s", "h", "o", "w", "i", "n", "g", " ", "b", "u", "l", "l", "i", "s", "h", " ", "m", "o", "m", "e", "n", "t", "u", "m", " ", "-", " ">> \o title
             ELSE IF sentiment < -20
             THEN mainTicker.ticker \o <<" ", "f", "a", "c", "i", "n", "g", " ", "b", "e", "a", "r", "i", "s", "h", " ", "p", "r", "e", "s", "s", "u", "r", "e", " ", "-", " ">> \o title
             ELSE title
     ELSE title

(***************************************************************************)
(* What the news endpoints hold.  The instants of the articles lie before  *)
(* the start of the clock.                                                 *)
(***************************************************************************)
NewsTimes == {-120000, -60000}

AVHeadline == <<"T", "e", "c", "h", " ", "s", "t", "o", "c", "k", "s", " ", "r", "a", "l", "l", "y">>

FHHeadline == <<"S", "h", "a", "r", "e", "s", " ", "p", "l", "u", "n", "g", "e", " ", "o", "n", " ", "g", "u", "i", "d", "a", "n", "c", "e", " ", "c", "u", "t">>

AVArticle(i, t, format) ==
  [url |-> [kind |-> "av", index |-> i, at |-> 0],
   title |-> AVHeadline,
   ticker_sentiment |-> <<>>,
   overall_sentiment_score |-> [num |-> 25],
   time_published |-> [format |-> format, time |-> t]]

\* datetime is in seconds
FHArticle(i, t) ==
  [id |-> [kind |-> "fh", index |-> i, at |-> 0],
   headline |-> FHHeadline,
   datetime |-> t \div 1000]

FeedTimes == UNION { [1 .. n -> NewsTimes] : n \in 0 .. MaxFeed }

\* a feed of more articles than the service takes, the latest first
LongFeedTimes == [i \in 1 .. (FeedSlice + 1) |-> 0 - 60000 * i]

\* feeds with dates in the ISO format; the article of the last feed has no
\* overall_sentiment_score
AVFeedsISO ==
  { [i \in 1 .. Len(ts) |-> AVArticle(i, ts[i], "iso")] : ts \in FeedTimes }
  \cup { [i \in 1 .. Len(LongFeedTimes) |-> AVArticle(i, LongFeedTimes[i], "iso")] }
  \cup { << [AVArticle(1, -60000, "iso") EXCEPT !.overall_sentiment_score = Undefined] >> }

\* feeds with dates in the provider's compact format, which all parse to the
\* Invalid Date
AVFeedsCompact ==
  { [i \in 1 .. n |-> AVArticle(i, -60000, "compact")] : n \in {1, 2} }

AVFeeds == AVFeedsISO \cup AVFeedsCompact

FHFeedsShort ==
  { [i \in 1 .. Len(ts) |-> FHArticle(i, ts[i])] : ts \in FeedTimes }

FHFeeds ==
  FHFeedsShort
  \cup { [i \in 1 .. Len(LongFeedTimes) |-> FHArticle(i, LongFeedTimes[i])] }

\* the outcomes of fetch(...) followed by response.json() for NEWS_SENTIMENT
AVNewsOutcomes(feed) ==
  { [kind |-> "reject", body |-> EmptyObject],
    [kind |-> "badjson", body |-> EmptyObject],
    [kind |-> "json", body |-> EmptyObject],
    [kind |-> "json", body |-> [feed |-> feed]] }

\* the outcomes for the Finnhub news: the body is an array or an error object
FHNewsOutcomes(feed) ==
  { [kind |-> "reject", isArray |-> FALSE, items |-> <<>>],
    [kind |-> "badjson", isArray |-> FALSE, items |-> <<>>],
    [kind |-> "json", isArray |-> FALSE, items |-> <<>>],
    [kind |-> "json", isArray |-> TRUE, items |-> feed] }

AVAlert(article) ==
  [id |-> article.url,
   title |-> createAlertFromNews(article.title, article.ticker_sentiment),
   type |-> determineAlertType(article.overall_sentiment_score),
   timestamp |-> NewDate(article.time_published),
   source |-> "Alpha Vantage",
   isLive |-> TRUE]

FHAlert(article) ==
  [id |-> article.id,
   title |-> createAlertFromNews(article.headline, Null),
   type |-> determineAlertTypeFromHeadline(article.headline),
   timestamp |-> DateOf(article.datetime * 1000),
   source |-> "Finnhub",
   isLive |-> TRUE]

\* fetchAlphaVantageNews when the provider answers with outcome o: every
\* error is caught and answered with []
fetchAlphaVantageNews(o) ==
  IF o.kind # "json" THEN Return(<<>>)
  ELSE IF "feed" \in DOMAIN o.body
       THEN LET taken == Slice(o.body.feed, FeedSlice)
            IN Return([i \in 1 .. Len(taken) |-> AVAlert(taken[i])])
       ELSE Return(<<>>)

\* the Finnhub news without data.slice(0, 5)
fetchFinnhubNewsUncapped(o) ==
  IF o.kind # "json" \/ ~ o.isArray THEN Return(<<>>)
  ELSE Return([i \in 1 .. Len(o.items) |-> FHAlert(o.items[i])])

\* fetchFinnhubNews when the provider answers with outcome o
fetchFinnhubNews(o) ==
  IF o.kind # "json" \/ ~ o.isArray THEN Return(<<>>)
  ELSE LET taken == Slice(o.items, FeedSlice)
       IN Return([i \in 1 .. Len(taken) |-> FHAlert(taken[i])])

(***************************************************************************)
(* generateRealisticMarketAlerts at time t.  d[i] / RandDen is the draw of *)
(* minutesAgo of template i; the draws that fill the placeholders of the   *)
(* titles are not modelled, the title is the template.                     *)
(***************************************************************************)
alertTemplates ==
  << [template |-> "{symbol} showing bullish momentum after earnings beat",
      type |-> "bullish", range |-> 30],
     [template |-> "Fed minutes suggest higher rates for longer",
      type |-> "bearish", range |-> 60],
     [template |-> "{symbol} filed 10-Q report - Revenue up {percent}% YoY",
      type |-> "neutral", range |-> 120],
     [template |-> "Tech sector rallies on AI breakthrough announcement",
      type |-> "bullish", range |-> 45],
     [template |-> "{symbol} announces stock buyback program worth ${amount}B",
      type |-> "bullish", range |-> 90],
     [template |-> "Market volatility increases amid geopolitical tensions",
      type |-> "bearish", range |-> 180],
     [template |-> "{symbol} upgrades price target to ${price}",
      type |-> "bullish", range |-> 60],
     [template |-> "Crypto market surge lifts blockchain-related stocks",
      type |-> "bullish", range |-> 30] >>

\* the simulated alerts with minutesAgo added to the clock
generateAlertsAhead(d, t) ==
  [index \in 1 .. SimulatedCount |->
     LET template == alertTemplates[index]
         minutesAgo == FloorDiv(d[index] * template.range, RandDen)
     IN [id |-> [kind |-> "alert", index |-> index - 1, at |-> t],
         title |-> template.template,
         type |-> template.type,
         timestamp |-> DateOf(t + minutesAgo * 60000),
         source |-> "Market Simulation",
         isLive |-> FALSE,
         minutesAgo |-> minutesAgo]]

generateRealisticMarketAlerts(d, t) ==
  [index \in 1 .. SimulatedCount |->
     LET template == alertTemplates[index]
         minutesAgo == FloorDiv(d[index] * template.range, RandDen)
     IN [id |-> [kind |-> "alert", index |-> index - 1, at |-> t],
         title |-> template.template,
         type |-> template.type,
         timestamp |-> DateOf(t - minutesAgo * 60000),
         source |-> "Market Simulation",
         isLive |-> FALSE,
         minutesAgo |-> minutesAgo]]

\* the draws of minutesAgo: one draw for the odd templates, one for the even
SimulatedDraws ==
  { [i \in 1 .. SimulatedCount |-> IF i % 2 = 1 THEN a ELSE b] :
      a \in RandomDraws, b \in RandomDraws }

(***************************************************************************)
(* alerts.sort((a, b) => new Date(b.timestamp) - new Date(a.timestamp)).   *)
(* With valid dates only, the result is the stable sort, latest first.     *)
(* With invalid dates only, every comparison is NaN, which counts as 0,    *)
(* and the order is kept.  With both, the comparison function is not       *)
(* consistent and the order is implementation-defined: any permutation.    *)
(* (The feeds that mix the two are short: InitNews.)                       *)
(***************************************************************************)
\* x behind the entries of the sorted sequence s that are not older than x
InsertByTime(s, x) ==
  LET k == Cardinality({ i \in 1 .. Len(s) : s[i].timestamp.time >= x.timestamp.time })
  IN SubSeq(s, 1, k) \o <<x>> \o SubSeq(s, k + 1, Len(s))

RECURSIVE SortByTimeDescending(_)
SortByTimeDescending(s) ==
  IF s = <<>> THEN <<>>
  ELSE InsertByTime(SortByTimeDescending(SubSeq(s, 1, Len(s) - 1)), s[Len(s)])

PermutationsOf(s) ==
  { [i \in 1 .. Len(s) |-> s[p[i]]] : p \in Permutations(1 .. Len(s)) }

SortOutcomes(s) ==
  IF \A i \in 1 .. Len(s) : s[i].timestamp.valid THEN {SortByTimeDescending(s)}
  ELSE IF \A i \in 1 .. Len(s) : ~ s[i].timestamp.valid THEN {s}
  ELSE PermutationsOf(s)

\* cached && Date.now() - cached.timestamp < this.cacheTimeout
NewsCacheValid(c, t) == c # Undefined /\ t - c.timestamp < newsCacheTimeout

\* the catch block of getMarketAlerts
CatchNewsError(d, t) == generateRealisticMarketAlerts(d, t)

(***************************************************************************)
(* Operations of NewsService.                                              *)
(***************************************************************************)
\* as AggregateAndReturn, with cache.set for the providers' alerts only
AggregateAndReturnLiveCached(list) ==
  \E d \in (IF list = <<>> THEN SimulatedDraws ELSE {[i \in 1 .. SimulatedCount |-> 0]}) :
    \E sorted \in SortOutcomes(IF list = <<>>
                                THEN generateRealisticMarketAlerts(d, now)
                                ELSE list) :
      LET result == Slice(sorted, AlertsLimit)
      IN /\ newsCache' = (IF list = <<>> THEN newsCache
                           ELSE [data |-> result, timestamp |-> now])
         /\ newsReturn' = [value |-> result, path |-> "fresh", union |-> list]
         /\ newsPc' = "idle"
         /\ alerts' = <<>>

\* getMarketAlerts from the last provider answer on: fallback, sort, slice,
\* cache.set, return.  The field union of the return keeps the value alerts
\* had before the fallback: the concatenation of the providers' answers.
AggregateAndReturn(list) ==
  \E d \in (IF list = <<>> THEN SimulatedDraws ELSE {[i \in 1 .. SimulatedCount |-> 0]}) :
    \E sorted \in SortOutcomes(IF list = <<>>
                                THEN generateRealisticMarketAlerts(d, now)
                                ELSE list) :
      LET result == Slice(sorted, AlertsLimit)
      IN /\ newsCache' = [data |-> result, timestamp |-> now]
         /\ newsReturn' = [value |-> result, path |-> "fresh", union |-> list]
         /\ newsPc' = "idle"
         /\ alerts' = <<>>

\* the catch block runs
ReturnFromCatch ==
  \E d \in SimulatedDraws :
    /\ newsReturn' = [value |-> CatchNewsError(d, now), path |-> "catch"]
    /\ newsPc' = "idle"
    /\ alerts' = <<>>
    /\ UNCHANGED newsCache

\* getMarketAlerts is called: up to the first await, or to the return
GetMarketAlerts ==
  /\ newsPc = "idle"
  /\ IF NewsCacheValid(newsCache, now)
     THEN /\ newsReturn' = [value |-> newsCache.data, path |-> "cache"]
          /\ UNCHANGED <<newsCache, newsPc, alerts>>
     ELSE IF alphaVantageKey
     THEN /\ newsPc' = "awaitAV"
          /\ alerts' = <<>>
          /\ UNCHANGED <<newsCache, newsReturn>>
     ELSE IF finnhubKey
     THEN /\ newsPc' = "awaitFH"
          /\ alerts' = <<>>
          /\ UNCHANGED <<newsCache, newsReturn>>
     ELSE AggregateAndReturn(<<>>)
  /\ UNCHANGED <<now, alphaVantageKey, finnhubKey, avFeed, fhFeed, quoteVars, aiCall, helperCall, dashboard>>

\* await fetchAlphaVantageNews() settles
AVNewsSettle ==
  /\ newsPc = "awaitAV"
  /\ \E o \in AVNewsOutcomes(avFeed) :
       LET r == fetchAlphaVantageNews(o)
       IN IF r.threw THEN ReturnFromCatch
          ELSE IF finnhubKey
          THEN /\ alerts' = alerts \o r.value
               /\ newsPc' = "awaitFH"
               /\ UNCHANGED <<newsCache, newsReturn>>
          ELSE AggregateAndReturn(alerts \o r.value)
  /\ UNCHANGED <<now, alphaVantageKey, finnhubKey, avFeed, fhFeed, quoteVars, aiCall, helperCall, dashboard>>

\* await fetchFinnhubNews() settles
FHNewsSettle ==
  /\ newsPc = "awaitFH"
  /\ \E o \in FHNewsOutcomes(fhFeed) :
       LET r == fetchFinnhubNews(o)
       IN IF r.threw THEN ReturnFromCatch
          ELSE AggregateAndReturn(alerts \o r.value)
  /\ UNCHANGED <<now, alphaVantageKey, finnhubKey, avFeed, fhFeed, quoteVars, aiCall, helperCall, dashboard>>

\* time passes
TickNews ==
  /\ now + NewsStep <= MaxNewsNow
  /\ now' = now + NewsStep
  /\ UNCHANGED <<alphaVantageKey, quoteVars, newsVars, aiCall, helperCall, dashboard>>

InitNews ==
  /\ now = 0
  /\ alphaVantageKey \in BOOLEAN
  /\ finnhubKey \in BOOLEAN
  /\ avFeed \in (IF alphaVantageKey THEN AVFeeds ELSE {<<>>})
  /\ fhFeed \in (IF ~ finnhubKey THEN {<<>>}
                  ELSE IF avFeed \in AVFeedsCompact THEN FHFeedsShort
                  ELSE FHFeeds)
  /\ cache = [s \in Symbols |-> Undefined]
  /\ batchPc = "idle"
  /\ batchSymbols = <<>>
  /\ tasks = <<>>
  /\ batchResult = <<>>
  /\ newsCache = Undefined
  /\ newsPc = "idle"
  /\ alerts = <<>>
  /\ newsReturn = Undefined
  /\ aiCall = [state |-> "idle"]
  /\ helperCall = [fn |-> "none"]
  /\ dashboard = DashboardStart

NextNews ==
  \/ GetMarketAlerts
  \/ AVNewsSettle
  \/ FHNewsSettle
  \/ TickNews

SpecNews == InitNews /\ [][NextNews]_vars

(***************************************************************************)
(* Properties of NewsService.                                              *)
(***************************************************************************)
\* C7: the list getMarketAlerts returns, on every return path, has at most 10
\* entries and is ordered by timestamp: each entry's timestamp is greater
\* than or equal to the next entry's.
C7_AtMostTenLatestFirst ==
  newsReturn # Undefined =>
    LET list == newsReturn.value
    IN /\ Len(list) <= 10
       /\ \A i \in 1 .. (Len(list) - 1) :
            /\ list[i].timestamp.valid
            /\ list[i + 1].timestamp.valid
            /\ list[i].timestamp.time >= list[i + 1].timestamp.time

(***************************************************************************)
(* AIFinancialService                                                      *)
(*                                                                         *)
(* A text is the sequence of its characters, so that the regular           *)
(* expressions of the extractors are computed on it.  Literal holds the    *)
(* string literals of the class.                                           *)
(***************************************************************************)
Literal ==
  [ selectStockFirst |->
        <<"P", "l", "e", "a", "s", "e", " ", "s", "e", "l", "e", "c", "t",
        " ", "a", " ", "s", "t", "o", "c", "k", " ", "f", "r", "o", "m",
        " ", "t", "h", "e", " ", "w", "a", "t", "c", "h", "l", "i", "s",
        "t", " ", "f", "i", "r", "s", "t", ".">>,
    aiUnavailable |->
        <<"A", "I", " ", "s", "e", "r", "v", "i", "c", "e", " ", "n", "o",
        "t", " ", "a", "v", "a", "i", "l", "a", "b", "l", "e", ".", " ",
        "P", "l", "e", "a", "s", "e", " ", "c", "h", "e", "c", "k", " ",
        "y", "o", "u", "r", " ", "O", "p", "e", "n", "A", "I", " ", "A",
        "P", "I", " ", "k", "e", "y", " ", "i", "n", " ", "t", "h", "e",
        " ", ".", "e", "n", "v", " ", "f", "i", "l", "e", ".">>,
    keyRequired |->
        <<"O", "p", "e", "n", "A", "I", " ", "A", "P", "I", " ", "k", "e",
        "y", " ", "i", "s", " ", "r", "e", "q", "u", "i", "r", "e", "d",
        ".", " ", "P", "l", "e", "a", "s", "e", " ", "a", "d", "d", " ",
        "R", "E", "A", "C", "T", "_", "A", "P", "P", "_", "O", "P", "E",
        "N", "A", "I", "_", "A", "P", "I", "_", "K", "E", "Y", " ", "t",
        "o", " ", "y", "o", "u", "r", " ", ".", "e", "n", "v", " ", "f",
        "i", "l", "e", ".">>,
    targetPrice |->
        <<"t", "a", "r", "g", "e", "t", " ", "p", "r", "i", "c", "e">>,
    support |->
        <<"s", "u", "p", "p", "o", "r", "t">>,
    resistance |->
        <<"r", "e", "s", "i", "s", "t", "a", "n", "c", "e">>,
    BUY |->
        <<"B", "U", "Y">>,
    SELL |->
        <<"S", "E", "L", "L">>,
    HOLD |->
        <<"H", "O", "L", "D">>,
    STRONG_BUY |->
        <<"S", "T", "R", "O", "N", "G", " ", "B", "U", "Y">>,
    STRONG_SELL |->
        <<"S", "T", "R", "O", "N", "G", " ", "S", "E", "L", "L">>,
    bullish |->
        <<"b", "u", "l", "l", "i", "s", "h">>,
    bearish |->
        <<"b", "e", "a", "r", "i", "s", "h">>,
    neutral |->
        <<"n", "e", "u", "t", "r", "a", "l">>,
    positive |->
        <<"p", "o", "s", "i", "t", "i", "v", "e">>,
    negative |->
        <<"n", "e", "g", "a", "t", "i", "v", "e">>,
    MACD |->
        <<"M", "A", "C", "D">>,
    month |->
        <<"m", "o", "n", "t", "h">>,
    year |->
        <<"y", "e", "a", "r">>,
    week |->
        <<"w", "e", "e", "k">>,
    confidence |->
        <<"c", "o", "n", "f", "i", "d", "e", "n", "c", "e">>,
    RISK_FACTORS |->
        <<"R", "I", "S", "K", " ", "F", "A", "C", "T", "O", "R", "S">>,
    RiskFactors |->
        <<"R", "i", "s", "k", " ", "F", "a", "c", "t", "o", "r", "s">>,
    RISKS |->
        <<"R", "I", "S", "K", "S">>,
    EXECUTIVE_SUMMARY |->
        <<"E", "X", "E", "C", "U", "T", "I", "V", "E", " ", "S", "U", "M",
        "M", "A", "R", "Y">>,
    ExecutiveSummary |->
        <<"E", "x", "e", "c", "u", "t", "i", "v", "e", " ", "S", "u", "m",
        "m", "a", "r", "y">>,
    PE |->
        <<"P", "/", "E">>,
    beta |->
        <<"b", "e", "t", "a">>,
    dividend |->
        <<"d", "i", "v", "i", "d", "e", "n", "d">>,
    RSI |->
        <<"R", "S", "I">>,
    revenueGrowth |->
        <<"r", "e", "v", "e", "n", "u", "e", " ", "g", "r", "o", "w", "t",
        "h">>,
    earningsGrowth |->
        <<"e", "a", "r", "n", "i", "n", "g", "s", " ", "g", "r", "o", "w",
        "t", "h">>,
    profitMargin |->
        <<"p", "r", "o", "f", "i", "t", " ", "m", "a", "r", "g", "i", "n">>,
    ROE |->
        <<"R", "O", "E">>,
    Bullish |->
        <<"B", "u", "l", "l", "i", "s", "h">>,
    Bearish |->
        <<"B", "e", "a", "r", "i", "s", "h">>,
    Neutral |->
        <<"N", "e", "u", "t", "r", "a", "l">>,
    bullishCrossover |->
        <<"B", "u", "l", "l", "i", "s", "h", " ", "c", "r", "o", "s", "s",
        "o", "v", "e", "r", " ", "s", "i", "g", "n", "a", "l">>,
    neutralConsolidation |->
        <<"N", "e", "u", "t", "r", "a", "l", " ", "c", "o", "n", "s", "o",
        "l", "i", "d", "a", "t", "i", "o", "n">>,
    twelveMonths |->
        <<"1", "2", " ", "m", "o", "n", "t", "h", "s">>,
    summaryFor |->
        <<"A", "I", "-", "G", "e", "n", "e", "r", "a", "t", "e", "d", " ",
        "P", "r", "o", "f", "e", "s", "s", "i", "o", "n", "a", "l", " ", "A",
        "n", "a", "l", "y", "s", "i", "s", " ", "f", "o", "r", " ">>,
    professional |->
        <<"P", "r", "o", "f", "e", "s", "s", "i", "o", "n", "a", "l", " ",
        "A", "I", " ", "a", "n", "a", "l", "y", "s", "i", "s", " ", "f", "o",
        "r", " ">>,
    indicates |->
        <<" ", "i", "n", "d", "i", "c", "a", "t", "e", "s", " ">>,
    recommendationBased |->
        <<" ", "r", "e", "c", "o", "m", "m", "e", "n", "d", "a", "t", "i",
        "o", "n", " ", "b", "a", "s", "e", "d", " ", "o", "n", " ", "c", "o",
        "m", "p", "r", "e", "h", "e", "n", "s", "i", "v", "e", " ", "m", "a",
        "r", "k", "e", "t", " ", "e", "v", "a", "l", "u", "a", "t", "i", "o",
        "n", ".">>,
    failedToParse |->
        <<"F", "a", "i", "l", "e", "d", " ", "t", "o", " ", "p", "a", "r",
        "s", "e", " ", "A", "I", " ", "a", "n", "a", "l", "y", "s", "i", "s",
        ".", " ", "P", "l", "e", "a", "s", "e", " ", "t", "r", "y", " ", "a",
        "g", "a", "i", "n", ".">>,
    apiKey |->
        <<"A", "P", "I", " ", "k", "e", "y">>,
    quota |->
        <<"q", "u", "o", "t", "a">>,
    rateLimit |->
        <<"r", "a", "t", "e", " ", "l", "i", "m", "i", "t">>,
    invalidKey |->
        <<"I", "n", "v", "a", "l", "i", "d", " ", "O", "p", "e", "n", "A",
        "I", " ", "A", "P", "I", " ", "k", "e", "y", ".", " ", "P", "l", "e",
        "a", "s", "e", " ", "c", "h", "e", "c", "k", " ", "y", "o", "u", "r",
        " ", ".", "e", "n", "v", " ", "f", "i", "l", "e", " ", "a", "n", "d",
        " ", "e", "n", "s", "u", "r", "e", " ", "t", "h", "e", " ", "A", "P",
        "I", " ", "k", "e", "y", " ", "i", "s", " ", "c", "o", "r", "r", "e",
        "c", "t", ".">>,
    quotaExceeded |->
        <<"O", "p", "e", "n", "A", "I", " ", "A", "P", "I", " ", "q", "u",
        "o", "t", "a", " ", "e", "x", "c", "e", "e", "d", "e", "d", ".", " ",
        "P", "l", "e", "a", "s", "e", " ", "c", "h", "e", "c", "k", " ", "y",
        "o", "u", "r", " ", "u", "s", "a", "g", "e", " ", "l", "i", "m", "i",
        "t", "s", " ", "o", "r", " ", "a", "d", "d", " ", "b", "i", "l", "l",
        "i", "n", "g", " ", "i", "n", "f", "o", "r", "m", "a", "t", "i", "o",
        "n", ".">>,
    rateLimitExceeded |->
        <<"R", "a", "t", "e", " ", "l", "i", "m", "i", "t", " ", "e", "x",
        "c", "e", "e", "d", "e", "d", ".", " ", "P", "l", "e", "a", "s", "e",
        " ", "w", "a", "i", "t", " ", "a", " ", "m", "o", "m", "e", "n", "t",
        " ", "a", "n", "d", " ", "t", "r", "y", " ", "a", "g", "a", "i", "n",
        ".">>,
    analysisFailed |->
        <<"A", "I", " ", "A", "n", "a", "l", "y", "s", "i", "s", " ", "f",
        "a", "i", "l", "e", "d", ":", " ">>,
    noChoice |->
        <<"C", "a", "n", "n", "o", "t", " ", "r", "e", "a", "d", " ", "p",
        "r", "o", "p", "e", "r", "t", "i", "e", "s", " ", "o", "f", " ", "u",
        "n", "d", "e", "f", "i", "n", "e", "d", " ", "(", "r", "e", "a", "d",
        "i", "n", "g", " ", "'", "m", "e", "s", "s", "a", "g", "e", "'",
        ")">>,
    justNow |->
        <<"J", "u", "s", "t", " ", "n", "o", "w">>,
    minsAgo |->
        <<" ", "m", "i", "n", "s", " ", "a", "g", "o">>,
    hour |->
        <<" ", "h", "o", "u", "r">>,
    day |->
        <<" ", "d", "a", "y">>,
    plural |-> <<"s">>,
    ago |->
        <<" ", "a", "g", "o">>,
    nan |-> <<"N", "a", "N">> ]

sectorRisks ==
  [ sector \in {"Technology", "Healthcare", "Financial Services", "Energy"} |->
      IF sector = "Technology" THEN
        << <<"R", "a", "p", "i", "d", " ", "t", "e", "c", "h", "n", "o", "l",
           "o", "g", "i", "c", "a", "l", " ", "o", "b", "s", "o", "l", "e",
           "s", "c", "e", "n", "c", "e", " ", "a", "n", "d", " ", "i", "n",
           "n", "o", "v", "a", "t", "i", "o", "n", " ", "c", "y", "c", "l",
           "e", "s">>,
           <<"R", "e", "g", "u", "l", "a", "t", "o", "r", "y", " ", "s", "c",
           "r", "u", "t", "i", "n", "y", " ", "a", "n", "d", " ", "a", "n",
           "t", "i", "t", "r", "u", "s", "t", " ", "c", "o", "n", "c", "e",
           "r", "n", "s">>,
           <<"C", "y", "b", "e", "r", "s", "e", "c", "u", "r", "i", "t", "y",
           " ", "t", "h", "r", "e", "a", "t", "s", " ", "a", "n", "d", " ",
           "d", "a", "t", "a", " ", "p", "r", "i", "v", "a", "c", "y", " ",
           "r", "e", "g", "u", "l", "a", "t", "i", "o", "n", "s">>,
           <<"T", "a", "l", "e", "n", "t", " ", "a", "c", "q", "u", "i", "s",
           "i", "t", "i", "o", "n", " ", "a", "n", "d", " ", "r", "e", "t",
           "e", "n", "t", "i", "o", "n", " ", "c", "h", "a", "l", "l", "e",
           "n", "g", "e", "s">>,
           <<"G", "l", "o", "b", "a", "l", " ", "s", "u", "p", "p", "l", "y",
           " ", "c", "h", "a", "i", "n", " ", "d", "e", "p", "e", "n", "d",
           "e", "n", "c", "i", "e", "s", " ", "f", "o", "r", " ", "h", "a",
           "r", "d", "w", "a", "r", "e", " ", "c", "o", "m", "p", "o", "n",
           "e", "n", "t", "s">> >>
      ELSE IF sector = "Healthcare" THEN
        << <<"R", "e", "g", "u", "l", "a", "t", "o", "r", "y", " ", "a", "p",
           "p", "r", "o", "v", "a", "l", " ", "r", "i", "s", "k", "s", " ",
           "f", "o", "r", " ", "n", "e", "w", " ", "d", "r", "u", "g", "s",
           " ", "a", "n", "d", " ", "d", "e", "v", "i", "c", "e", "s">>,
           <<"P", "a", "t", "e", "n", "t", " ", "c", "l", "i", "f", "f", " ",
           "e", "x", "p", "o", "s", "u", "r", "e", " ", "a", "n", "d", " ",
           "g", "e", "n", "e", "r", "i", "c", " ", "c", "o", "m", "p", "e",
           "t", "i", "t", "i", "o", "n">>,
           <<"H", "e", "a", "l", "t", "h", "c", "a", "r", "e", " ", "r", "e",
           "f", "o", "r", "m", " ", "a", "n", "d", " ", "p", "r", "i", "c",
           "i", "n", "g", " ", "p", "r", "e", "s", "s", "u", "r", "e">>,
           <<"C", "l", "i", "n", "i", "c", "a", "l", " ", "t", "r", "i", "a",
           "l", " ", "f", "a", "i", "l", "u", "r", "e", "s", " ", "a", "n",
           "d", " ", "d", "e", "v", "e", "l", "o", "p", "m", "e", "n", "t",
           " ", "c", "o", "s", "t", "s">>,
           <<"L", "i", "t", "i", "g", "a", "t", "i", "o", "n", " ", "a", "n",
           "d", " ", "p", "r", "o", "d", "u", "c", "t", " ", "l", "i", "a",
           "b", "i", "l", "i", "t", "y", " ", "r", "i", "s", "k", "s">> >>
      ELSE IF sector = "Financial Services" THEN
        << <<"I", "n", "t", "e", "r", "e", "s", "t", " ", "r", "a", "t", "e",
           " ", "s", "e", "n", "s", "i", "t", "i", "v", "i", "t", "y", " ",
           "a", "n", "d", " ", "y", "i", "e", "l", "d", " ", "c", "u", "r",
           "v", "e", " ", "c", "h", "a", "n", "g", "e", "s">>,
           <<"C", "r", "e", "d", "i", "t", " ", "r", "i", "s", "k", " ", "a",
           "n", "d", " ", "l", "o", "a", "n", " ", "l", "o", "s", "s", " ",
           "p", "r", "o", "v", "i", "s", "i", "o", "n", "s">>,
           <<"R", "e", "g", "u", "l", "a", "t", "o", "r", "y", " ", "c", "o",
           "m", "p", "l", "i", "a", "n", "c", "e", " ", "a", "n", "d", " ",
           "c", "a", "p", "i", "t", "a", "l", " ", "r", "e", "q", "u", "i",
           "r", "e", "m", "e", "n", "t", "s">>,
           <<"E", "c", "o", "n", "o", "m", "i", "c", " ", "r", "e", "c", "e",
           "s", "s", "i", "o", "n", " ", "i", "m", "p", "a", "c", "t", " ",
           "o", "n", " ", "l", "o", "a", "n", " ", "d", "e", "m", "a", "n",
           "d">>,
           <<"F", "i", "n", "t", "e", "c", "h", " ", "d", "i", "s", "r", "u",
           "p", "t", "i", "o", "n", " ", "a", "n", "d", " ", "d", "i", "g",
           "i", "t", "a", "l", " ", "t", "r", "a", "n", "s", "f", "o", "r",
           "m", "a", "t", "i", "o", "n", " ", "c", "o", "s", "t", "s">> >>
      ELSE
        << <<"C", "o", "m", "m", "o", "d", "i", "t", "y", " ", "p", "r", "i",
           "c", "e", " ", "v", "o", "l", "a", "t", "i", "l", "i", "t", "y",
           " ", "a", "n", "d", " ", "d", "e", "m", "a", "n", "d", " ", "f",
           "l", "u", "c", "t", "u", "a", "t", "i", "o", "n", "s">>,
           <<"E", "n", "v", "i", "r", "o", "n", "m", "e", "n", "t", "a", "l",
           " ", "r", "e", "g", "u", "l", "a", "t", "i", "o", "n", "s", " ",
           "a", "n", "d", " ", "c", "a", "r", "b", "o", "n", " ", "t", "r",
           "a", "n", "s", "i", "t", "i", "o", "n">>,
           <<"G", "e", "o", "p", "o", "l", "i", "t", "i", "c", "a", "l", " ",
           "r", "i", "s", "k", "s", " ", "a", "n", "d", " ", "s", "u", "p",
           "p", "l", "y", " ", "d", "i", "s", "r", "u", "p", "t", "i", "o",
           "n", "s">>,
           <<"C", "a", "p", "i", "t", "a", "l", " ", "i", "n", "t", "e", "n",
           "s", "i", "t", "y", " ", "a", "n", "d", " ", "p", "r", "o", "j",
           "e", "c", "t", " ", "e", "x", "e", "c", "u", "t", "i", "o", "n",
           " ", "r", "i", "s", "k", "s">>,
           <<"R", "e", "n", "e", "w", "a", "b", "l", "e", " ", "e", "n", "e",
           "r", "g", "y", " ", "c", "o", "m", "p", "e", "t", "i", "t", "i",
           "o", "n", " ", "a", "n", "d", " ", "s", "t", "r", "a", "n", "d",
           "e", "d", " ", "a", "s", "s", "e", "t", "s">> >> ]

defaultRisks ==
  << <<"M", "a", "r", "k", "e", "t", " ", "v", "o", "l", "a", "t", "i", "l",
     "i", "t", "y", " ", "a", "n", "d", " ", "m", "a", "c", "r", "o", "e",
     "c", "o", "n", "o", "m", "i", "c", " ", "u", "n", "c", "e", "r", "t",
     "a", "i", "n", "t", "y">>,
     <<"C", "o", "m", "p", "e", "t", "i", "t", "i", "v", "e", " ", "p", "r",
     "e", "s", "s", "u", "r", "e", "s", " ", "a", "n", "d", " ", "m", "a",
     "r", "k", "e", "t", " ", "s", "h", "a", "r", "e", " ", "e", "r", "o",
     "s", "i", "o", "n">>,
     <<"S", "u", "p", "p", "l", "y", " ", "c", "h", "a", "i", "n", " ", "d",
     "i", "s", "r", "u", "p", "t", "i", "o", "n", "s", " ", "a", "n", "d",
     " ", "c", "o", "s", "t", " ", "i", "n", "f", "l", "a", "t", "i", "o",
     "n">>,
     <<"R", "e", "g", "u", "l", "a", "t", "o", "r", "y", " ", "c", "h", "a",
     "n", "g", "e", "s", " ", "a", "n", "d", " ", "c", "o", "m", "p", "l",
     "i", "a", "n", "c", "e", " ", "r", "e", "q", "u", "i", "r", "e", "m",
     "e", "n", "t", "s">>,
     <<"E", "c", "o", "n", "o", "m", "i", "c", " ", "d", "o", "w", "n", "t",
     "u", "r", "n", " ", "i", "m", "p", "a", "c", "t", " ", "o", "n", " ",
     "c", "o", "n", "s", "u", "m", "e", "r", " ", "d", "e", "m", "a", "n",
     "d">> >>

\* the texts the text-generation collaborator answers with
Contents ==
  << <<"1", ".", " ", "E", "X", "E", "C", "U", "T", "I", "V", "E", " ", "S",
     "U", "M", "M", "A", "R", "Y", "\n", "A", "p", "p", "l", "e", " ", "k",
     "e", "e", "p", "s", " ", "a", " ", "l", "e", "a", "d", "i", "n", "g",
     " ", "m", "a", "r", "k", "e", "t", " ", "p", "o", "s", "i", "t", "i",
     "o", "n", ".", "\n", "\n", "2", ".", " ", "T", "E", "C", "H", "N", "I",
     "C", "A", "L", " ", "A", "N", "A", "L", "Y", "S", "I", "S", "\n", "T",
     "r", "e", "n", "d", ":", " ", "b", "u", "l", "l", "i", "s", "h", ".",
     " ", "S", "u", "p", "p", "o", "r", "t", ":", " ", "$", "1", "8", "5",
     ".", "5", "0", ",", " ", "r", "e", "s", "i", "s", "t", "a", "n", "c",
     "e", ":", " ", "$", "2", "0", "5", ".", " ", "R", "S", "I", ":", " ",
     "5", "8", ".", " ", "M", "A", "C", "D", ":", " ", "m", "o", "m", "e",
     "n", "t", "u", "m", " ", "b", "u", "i", "l", "d", "i", "n", "g", ".",
     "\n", "\n", "3", ".", " ", "F", "U", "N", "D", "A", "M", "E", "N", "T",
     "A", "L", " ", "A", "N", "A", "L", "Y", "S", "I", "S", "\n", "R", "e",
     "v", "e", "n", "u", "e", " ", "g", "r", "o", "w", "t", "h", ":", " ",
     "8", ".", "5", "%", ".", " ", "E", "a", "r", "n", "i", "n", "g", "s",
     " ", "g", "r", "o", "w", "t", "h", ":", " ", "1", "0", "%", ".", " ",
     "P", "r", "o", "f", "i", "t", " ", "m", "a", "r", "g", "i", "n", ":",
     " ", "2", "5", ".", "3", "%", ".", " ", "R", "O", "E", ":", " ", "4",
     "5", "%", ".", " ", "P", "/", "E", ":", " ", "2", "9", ".", "4", ",",
     " ", "b", "e", "t", "a", " ", "1", ".", "2", ",", " ", "d", "i", "v",
     "i", "d", "e", "n", "d", " ", "0", ".", "5", "%", ".", "\n", "\n", "4",
     ".", " ", "I", "N", "V", "E", "S", "T", "M", "E", "N", "T", " ", "R",
     "E", "C", "O", "M", "M", "E", "N", "D", "A", "T", "I", "O", "N", "\n",
     "R", "a", "t", "i", "n", "g", ":", " ", "B", "U", "Y", ".", " ", "T",
     "a", "r", "g", "e", "t", " ", "p", "r", "i", "c", "e", ":", " ", "$",
     "2", "1", "0", ".", "5", "0", " ", "i", "n", " ", "1", "2", " ", "m",
     "o", "n", "t", "h", "s", ".", " ", "C", "o", "n", "f", "i", "d", "e",
     "n", "c", "e", ":", " ", "8", "5", "%", "\n", "\n", "5", ".", " ", "R",
     "I", "S", "K", " ", "F", "A", "C", "T", "O", "R", "S", "\n", "-", " ",
     "R", "e", "g", "u", "l", "a", "t", "o", "r", "y", " ", "s", "c", "r",
     "u", "t", "i", "n", "y", " ", "i", "n", " ", "E", "u", "r", "o", "p",
     "e", " ", "a", "n", "d", " ", "t", "h", "e", " ", "U", "S", "\n", "-",
     " ", "S", "u", "p", "p", "l", "y", " ", "c", "h", "a", "i", "n", " ",
     "c", "o", "n", "c", "e", "n", "t", "r", "a", "t", "i", "o", "n", " ",
     "i", "n", " ", "A", "s", "i", "a", "\n">>,
     <<>>,
     <<"N", "o", " ", "c", "o", "m", "m", "e", "n", "t">>,
     <<"T", "h", "e", " ", "T", "A", "R", "G", "E", "T", " ", "P", "R", "I",
     "C", "E", " ", "i", "s", " ", "$", "1", "5", "0", " ", "a", "n", "d",
     " ", "w", "e", " ", "r", "a", "t", "e", " ", "i", "t", " ", "a", " ",
     "s", "t", "r", "o", "n", "g", " ", "s", "e", "l", "l", " ", "f", "o",
     "r", " ", "6", "-", "1", "2", " ", "m", "o", "n", "t", "h", "s", ",",
     " ", "c", "o", "n", "f", "i", "d", "e", "n", "c", "e", " ", "h", "i",
     "g", "h", ".">>,
     <<"E", "X", "E", "C", "U", "T", "I", "V", "E", " ", "S", "U", "M", "M",
     "A", "R", "Y", ":", "\n", "\n", "M", "A", "C", "D", ".", "\n", "S", "u",
     "p", "p", "o", "r", "t", ":", " ", "0", ".", " ", "T", "a", "r", "g",
     "e", "t", " ", "p", "r", "i", "c", "e", ":", " ", "0", "\n", "R", "I",
     "S", "K", " ", "F", "A", "C", "T", "O", "R", "S", ":", "\n", "-", " ",
     "t", "o", "o", " ", "s", "h", "o", "r", "t", "\n">>,
     <<"#", "#", " ", "E", "x", "e", "c", "u", "t", "i", "v", "e", " ", "S",
     "u", "m", "m", "a", "r", "y", "\n", "S", "o", "l", "i", "d", " ", "q",
     "u", "a", "r", "t", "e", "r", ",", " ", "o", "u", "t", "l", "o", "o",
     "k", " ", "n", "e", "g", "a", "t", "i", "v", "e", ".", "\n", "\n", "R",
     "i", "s", "k", "s", ":", "\n", "1", ".", " ", "I", "n", "t", "e", "n",
     "s", "e", " ", "c", "o", "m", "p", "e", "t", "i", "t", "i", "o", "n",
     " ", "f", "r", "o", "m", " ", "l", "a", "r", "g", "e", "r", " ", "r",
     "i", "v", "a", "l", "s", "\n", "2", ".", " ", "W", "e", "a", "k", " ",
     "c", "o", "n", "s", "u", "m", "e", "r", " ", "d", "e", "m", "a", "n",
     "d", " ", "n", "e", "x", "t", " ", "y", "e", "a", "r">>,
     <<"O", "u", "r", " ", "T", "A", "R", "G", "E", "T", " ", "P", "R", "I",
     "C", "E", " ", "i", "s", " ", "$", "1", "5", "0", ",", " ", "r", "a",
     "t", "i", "n", "g", " ", "B", "U", "Y", ".">>,
     <<"R", "I", "S", "K", " ", "F", "A", "C", "T", "O", "R", "S", ":", "\n",
     "-", " ", "R", "i", "s", "i", "n", "g", " ", "i", "n", "p", "u", "t",
     " ", "c", "o", "s", "t", "s", " ", "a", "n", "d", " ", "w", "a", "g",
     "e", "s", "\n", "-", " ", "C", "u", "r", "r", "e", "n", "c", "y", " ",
     "s", "w", "i", "n", "g", "s", " ", "a", "g", "a", "i", "n", "s", "t",
     " ", "t", "h", "e", " ", "d", "o", "l", "l", "a", "r", "\n", "-", " ",
     "S", "l", "o", "w", "e", "r", " ", "d", "e", "m", "a", "n", "d", " ",
     "a", "c", "r", "o", "s", "s", " ", "E", "u", "r", "o", "p", "e", "\n",
     "-", " ", "N", "e", "w", " ", "e", "n", "t", "r", "a", "n", "t", "s",
     " ", "w", "i", "t", "h", " ", "l", "o", "w", "e", "r", " ", "p", "r",
     "i", "c", "e", "s", "\n", "-", " ", "P", "e", "n", "d", "i", "n", "g",
     " ", "l", "i", "t", "i", "g", "a", "t", "i", "o", "n", " ", "o", "v",
     "e", "r", " ", "p", "a", "t", "e", "n", "t", "s", "\n", "-", " ", "H",
     "i", "g", "h", "e", "r", " ", "i", "n", "t", "e", "r", "e", "s", "t",
     " ", "r", "a", "t", "e", "s", " ", "f", "o", "r", " ", "l", "o", "n",
     "g", "e", "r", "\n">> >>

\* a JavaScript string is [type |-> "string", chars |-> its characters]; a
\* number is [type |-> "number", value |-> n], n in the unit the field is
\* kept in (cents for a price), or NaN; an array carries its items
Str(chars) == [type |-> "string", chars |-> chars]

Num(n) == [type |-> "number", value |-> n]

NaN == [type |-> "NaN"]

Array(items) == [type |-> "array", items |-> items]

\* the values that count as false in a || b
Falsy(v) ==
  \/ v = Null
  \/ v = Undefined
  \/ v = NaN
  \/ v = Str(<<>>)
  \/ v = Num(0)

\* a ?? b, which keeps an empty string and a zero
OrElseNullish(a, b) == IF a = Null \/ a = Undefined THEN b ELSE a

\* a || b
OrElse(a, b) == IF Falsy(a) THEN b ELSE a

Digit == {"0", "1", "2", "3", "4", "5", "6", "7", "8", "9"}

\* the class \s
WhiteSpace == {" ", "\n", "\t", "\r"}

DigitChars == <<"0", "1", "2", "3", "4", "5", "6", "7", "8", "9">>

DigitValue(c) == (CHOOSE k \in 1 .. 10 : DigitChars[k] = c) - 1

UpperChar(c) ==
  IF \E k \in 1 .. 26 : LowerCase[k] = c
  THEN UpperCase[CHOOSE k \in 1 .. 26 : LowerCase[k] = c]
  ELSE c

\* s.toUpperCase()
ToUpperCase(s) == [i \in 1 .. Len(s) |-> UpperChar(s[i])]

SetMin(S) == CHOOSE x \in S : \A y \in S : x <= y

\* the literal w matches in s at position i, whatever the case (flag i)
LitAt(s, i, w) ==
  /\ i >= 1
  /\ i + Len(w) - 1 <= Len(s)
  /\ \A k \in 1 .. Len(w) : LowerChar(s[i + k - 1]) = LowerChar(w[k])

\* the position behind the longest run of characters of class C from i (C*)
SpanEnd(s, i, C) ==
  SetMin({ j \in i .. (Len(s) + 1) : j = Len(s) + 1 \/ s[j] \notin C })

\* the position behind the longest run of characters outside C from i ([^C]*)
SpanEndNot(s, i, C) ==
  SetMin({ j \in i .. (Len(s) + 1) : j = Len(s) + 1 \/ s[j] \in C })

CharAt(s, i) == IF i >= 1 /\ i <= Len(s) THEN s[i] ELSE ""

\* the position behind \d+\.?\d* matched at i, or 0 when it does not match
DecimalEnd(s, i) ==
  IF CharAt(s, i) \notin Digit THEN 0
  ELSE LET e1 == SpanEnd(s, i, Digit)
       IN IF CharAt(s, e1) = "." THEN SpanEnd(s, e1 + 1, Digit) ELSE e1

RECURSIVE DigitsValue(_)
DigitsValue(ds) ==
  IF ds = <<>> THEN 0
  ELSE 10 * DigitsValue(SubSeq(ds, 1, Len(ds) - 1)) + DigitValue(ds[Len(ds)])

\* parseFloat of a text matched by \d+\.?\d*, in hundredths; the texts of the
\* model carry no more than two decimals
ParseDecimal(text) ==
  LET e1 == SpanEnd(text, 1, Digit)
      whole == DigitsValue(SubSeq(text, 1, e1 - 1))
      frac == SubSeq(text, e1 + 1, Len(text))
      cents == IF Len(frac) = 0 THEN 0
               ELSE IF Len(frac) = 1 THEN 10 * DigitsValue(frac)
               ELSE DigitsValue(SubSeq(frac, 1, 2))
  IN Num(100 * whole + cents)

\* s.trim()
Trim(s) ==
  LET keep == { i \in 1 .. Len(s) : s[i] \notin WhiteSpace }
  IN IF keep = {} THEN <<>>
     ELSE SubSeq(s, SetMin(keep), CHOOSE x \in keep : \A y \in keep : x >= y)

\* the match of keyword[:\s]*\$?(\d+\.?\d*) at position i: the start of the
\* group, or 0
AmountStart(s, i, keyword) ==
  IF ~ LitAt(s, i, keyword) THEN 0
  ELSE LET j == SpanEnd(s, i + Len(keyword), WhiteSpace \cup {":"})
           k == IF CharAt(s, j) = "$" THEN j + 1 ELSE j
       IN IF DecimalEnd(s, k) # 0 THEN k ELSE 0

\* content.match(/keyword[:\s]*\$?(\d+\.?\d*)/i): parseFloat(match[1]), or null
ExtractAmount(content, keyword) ==
  LET hits == { i \in 1 .. Len(content) : AmountStart(content, i, keyword) # 0 }
  IN IF hits = {} THEN Null
     ELSE LET k == AmountStart(content, SetMin(hits), keyword)
          IN ParseDecimal(SubSeq(content, k, DecimalEnd(content, k) - 1))

extractTargetPrice(content) == ExtractAmount(content, Literal.targetPrice)

extractSupport(content) == ExtractAmount(content, Literal.support)

extractResistance(content) == ExtractAmount(content, Literal.resistance)

\* the first alternative of the sequence words that matches at i, or <<>>
FirstWordAt(s, i, words) ==
  LET ks == { k \in 1 .. Len(words) : LitAt(s, i, words[k]) }
  IN IF ks = {} THEN <<>> ELSE SubSeq(s, i, i + Len(words[SetMin(ks)]) - 1)

\* the text of the leftmost match of (w1|w2|...), or <<>> when none
FirstWord(s, words) ==
  LET hits == { i \in 1 .. Len(s) : FirstWordAt(s, i, words) # <<>> }
  IN IF hits = {} THEN <<>> ELSE FirstWordAt(s, SetMin(hits), words)

extractRating(content) ==
  LET m == FirstWord(content, << Literal.BUY, Literal.SELL, Literal.HOLD,
                                 Literal.STRONG_BUY, Literal.STRONG_SELL >>)
  IN IF m = <<>> THEN Null ELSE Str(ToUpperCase(m))

extractTrend(content) ==
  LET m == FirstWord(content, << Literal.bullish, Literal.bearish, Literal.neutral,
                                 Literal.positive, Literal.negative >>)
  IN IF m = <<>> THEN Null
     ELSE Str(<<UpperChar(m[1])>> \o ToLowerCase(SubSeq(m, 2, Len(m))))

\* the lookahead (?=\n\n|\d+\.|$) holds at position j
SectionEndsAt(s, j) ==
  \/ j = Len(s) + 1
  \/ CharAt(s, j) = "\n" /\ CharAt(s, j + 1) = "\n"
  \/ CharAt(s, j) \in Digit /\ CharAt(s, SpanEnd(s, j, Digit)) = "."

\* content.match(new RegExp(sectionName + '[:\n]([\s\S]*?)(?=\n\n|\d+\.|$)', 'i'))
extractSection(content, sectionName) ==
  LET L == Len(sectionName)
      hits == { i \in 1 .. Len(content) :
                  LitAt(content, i, sectionName) /\ CharAt(content, i + L) \in {":", "\n"} }
  IN IF hits = {} THEN Null
     ELSE LET start == SetMin(hits) + L + 1
              end == SetMin({ j \in start .. (Len(content) + 1) : SectionEndsAt(content, j) })
          IN Str(Trim(SubSeq(content, start, end - 1)))

\* the match of metricName[:\s]*([\d\.]+%?) at position i: the start of the
\* group, or 0
MetricStart(s, i, metricName) ==
  IF ~ LitAt(s, i, metricName) THEN 0
  ELSE LET j == SpanEnd(s, i + Len(metricName), WhiteSpace \cup {":"})
       IN IF CharAt(s, j) \in Digit \cup {"."} THEN j ELSE 0

extractMetric(content, metricName) ==
  LET hits == { i \in 1 .. Len(content) : MetricStart(content, i, metricName) # 0 }
  IN IF hits = {} THEN Null
     ELSE LET k == MetricStart(content, SetMin(hits), metricName)
              e == SpanEnd(content, k, Digit \cup {"."})
              f == IF CharAt(content, e) = "%" THEN e + 1 ELSE e
          IN Str(SubSeq(content, k, f - 1))

\* content.match(/(MACD|macd)[:\s]*([^.\n]*)/i): match[2].trim(), or null
extractMACD(content) ==
  LET hits == { i \in 1 .. Len(content) : LitAt(content, i, Literal.MACD) }
  IN IF hits = {} THEN Null
     ELSE LET j == SpanEnd(content, SetMin(hits) + 4, WhiteSpace \cup {":"})
              e == SpanEndNot(content, j, {".", "\n"})
          IN Str(Trim(SubSeq(content, j, e - 1)))

\* the position behind \d+[-\s]*\d*\s*(?:months?|years?|weeks?) matched at i,
\* or 0
TimeframeEnd(s, i) ==
  IF CharAt(s, i) \notin Digit THEN 0
  ELSE LET a == SpanEnd(s, i, Digit)
           b == SpanEnd(s, a, WhiteSpace \cup {"-"})
           c == SpanEnd(s, b, Digit)
           d == SpanEnd(s, c, WhiteSpace)
           unit == FirstWordAt(s, d, << Literal.month, Literal.year, Literal.week >>)
       IN IF unit = <<>> THEN 0
          ELSE IF LowerChar(CharAt(s, d + Len(unit))) = "s" THEN d + Len(unit) + 1
          ELSE d + Len(unit)

extractTimeframe(content) ==
  LET hits == { i \in 1 .. Len(content) : TimeframeEnd(content, i) # 0 }
  IN IF hits = {} THEN Null
     ELSE Str(SubSeq(content, SetMin(hits), TimeframeEnd(content, SetMin(hits)) - 1))

\* the match of confidence[:\s]*(\d+%) at position i: the start of the group,
\* or 0
ConfidenceStart(s, i) ==
  IF ~ LitAt(s, i, Literal.confidence) THEN 0
  ELSE LET j == SpanEnd(s, i + 10, WhiteSpace \cup {":"})
       IN IF CharAt(s, j) \in Digit /\ CharAt(s, SpanEnd(s, j, Digit)) = "%"
          THEN j ELSE 0

extractConfidence(content) ==
  LET hits == { i \in 1 .. Len(content) : ConfidenceStart(content, i) # 0 }
  IN IF hits = {} THEN Null
     ELSE LET k == ConfidenceStart(content, SetMin(hits))
          IN Str(SubSeq(content, k, SpanEnd(content, k, Digit)))

\* "U+2022" stands for the bullet character
\* the characters of the class [\u2022\-\d+\.\n] the risk section is split on
RiskDelimiters == Digit \cup {"U+2022", "-", "+", ".", "\n"}

\* s.split(/[C]/): the fragments between the characters of class C
RECURSIVE Split(_, _)
Split(s, C) ==
  LET e == SpanEndNot(s, 1, C)
  IN IF e = Len(s) + 1 THEN <<s>>
     ELSE <<SubSeq(s, 1, e - 1)>> \o Split(SubSeq(s, e + 1, Len(s)), C)

\* risk.trim().replace(/^[-\u2022\d.\s]+/, '')
StripLeading(s) ==
  LET t == Trim(s)
  IN SubSeq(t, SpanEnd(t, 1, Digit \cup WhiteSpace \cup {"-", "U+2022", "."}), Len(t))

\* as extractRiskFactors, without slice(0, 5)
extractRiskFactorsUncapped(content) ==
  LET riskSection == OrElse(extractSection(content, Literal.RISK_FACTORS),
                       OrElse(extractSection(content, Literal.RiskFactors),
                              extractSection(content, Literal.RISKS)))
  IN IF Falsy(riskSection) THEN Null
     ELSE LET kept == SelectSeq(Split(riskSection.chars, RiskDelimiters),
                                LAMBDA risk : Len(Trim(risk)) > 15)
              risks == [i \in 1 .. Len(kept) |-> Str(StripLeading(kept[i]))]
          IN IF Len(risks) > 0 THEN Array(risks) ELSE Null

extractRiskFactors(content) ==
  LET riskSection == OrElse(extractSection(content, Literal.RISK_FACTORS),
                       OrElse(extractSection(content, Literal.RiskFactors),
                              extractSection(content, Literal.RISKS)))
  IN IF Falsy(riskSection) THEN Null
     ELSE LET kept == SelectSeq(Split(riskSection.chars, RiskDelimiters),
                                LAMBDA risk : Len(Trim(risk)) > 15)
              risks == Slice([i \in 1 .. Len(kept) |-> Str(StripLeading(kept[i]))], 5)
          IN IF Len(risks) > 0 THEN Array(risks) ELSE Null

RECURSIVE IntChars(_)
\* the decimal digits of n >= 0
IntChars(n) ==
  IF n < 10 THEN <<DigitChars[n + 1]>>
  ELSE IntChars(n \div 10) \o <<DigitChars[(n % 10) + 1]>>

\* the digits of m / 10^k with k decimals
FormatFixed(m, k) ==
  LET p == IF k = 0 THEN 1 ELSE IF k = 1 THEN 10 ELSE 100
  IN IntChars(m \div p)
       \o (IF k = 0 THEN <<>> ELSE <<".">> \o Tail(IntChars(p + (m % p))))

\* x.toFixed(k) for x = num / (den * 10^k), den > 0
ToFixed(num, den, k) ==
  IF num < 0 THEN <<"-">> \o FormatFixed(RoundDiv(-num, den), k)
  ELSE FormatFixed(RoundDiv(num, den), k)

\* the watchlist and search entries a report is asked for; price in cents,
\* changePercent in hundredths; a watchlist entry carries no sector, and the
\* key a table is then read at is 'undefined'
Stocks ==
  { [symbol |-> <<"A", "A", "P", "L">>,
     name |-> <<"A", "p", "p", "l", "e", " ", "I", "n", "c", ".">>,
     price |-> 19542, change |-> 234, changePercent |-> 121,
     marketCap |-> <<"3", ".", "2", "T">>, sector |-> "Technology"],
    [symbol |-> <<"I", "N", "T", "C">>,
     name |-> <<"I", "n", "t", "e", "l", " ", "C", "o", "r", "p", ".">>,
     price |-> 3478, change |-> -45, changePercent |-> -128,
     marketCap |-> <<"1", "4", "5", "B">>, sector |-> "Technology"],
    [symbol |-> <<"X", "O", "M">>,
     name |-> <<"E", "x", "x", "o", "n", " ", "M", "o", "b", "i", "l", " ", "C", "o", "r", "p", ".">>,
     price |-> 11245, change |-> 167, changePercent |-> 151,
     marketCap |-> <<"4", "6", "5", "B">>, sector |-> "Energy"],
    [symbol |-> <<"P", "G">>,
     name |-> <<"P", "r", "o", "c", "t", "e", "r", " ", "&", " ", "G", "a", "m", "b", "l", "e", " ", "C", "o", ".">>,
     price |-> 15678, change |-> -34, changePercent |-> -22,
     marketCap |-> <<"3", "7", "5", "B">>, sector |-> "Consumer Staples"],
    [symbol |-> <<"M", "S", "F", "T">>,
     name |-> <<"M", "i", "c", "r", "o", "s", "o", "f", "t", " ", "C", "o", "r", "p", "o", "r", "a", "t", "i", "o", "n">>,
     price |-> 42000, change |-> 0, changePercent |-> 0,
     marketCap |-> <<"3", ".", "1", "T">>, sector |-> "undefined"] }

\* base and range of each sector's figure: base + Math.random() * range
sectorPEs ==
  [ sector \in {"Technology", "Healthcare", "Financial Services",
                "Consumer Discretionary", "Consumer Staples", "Energy",
                "Industrials", "Utilities", "Materials",
                "Communication Services", "Real Estate"} |->
      CASE sector = "Technology" -> <<25, 15>>
        [] sector = "Healthcare" -> <<20, 10>>
        [] sector = "Financial Services" -> <<12, 8>>
        [] sector = "Consumer Discretionary" -> <<18, 12>>
        [] sector = "Consumer Staples" -> <<15, 8>>
        [] sector = "Energy" -> <<8, 6>>
        [] sector = "Industrials" -> <<16, 10>>
        [] sector = "Utilities" -> <<12, 6>>
        [] sector = "Materials" -> <<14, 8>>
        [] sector = "Communication Services" -> <<20, 12>>
        [] sector = "Real Estate" -> <<10, 8>> ]

sectorGrowth ==
  [ sector \in DOMAIN sectorPEs |->
      CASE sector = "Technology" -> <<8, 12>>
        [] sector = "Healthcare" -> <<5, 8>>
        [] sector = "Financial Services" -> <<3, 6>>
        [] sector = "Consumer Discretionary" -> <<4, 8>>
        [] sector = "Consumer Staples" -> <<2, 4>>
        [] sector = "Energy" -> <<-2, 8>>
        [] sector = "Industrials" -> <<3, 6>>
        [] sector = "Utilities" -> <<1, 3>>
        [] sector = "Materials" -> <<2, 6>>
        [] sector = "Communication Services" -> <<4, 8>>
        [] sector = "Real Estate" -> <<2, 5>> ]

sectorMargins ==
  [ sector \in DOMAIN sectorPEs |->
      CASE sector = "Technology" -> <<15, 15>>
        [] sector = "Healthcare" -> <<10, 10>>
        [] sector = "Financial Services" -> <<20, 10>>
        [] sector = "Consumer Discretionary" -> <<5, 8>>
        [] sector = "Consumer Staples" -> <<8, 6>>
        [] sector = "Energy" -> <<5, 10>>
        [] sector = "Industrials" -> <<6, 8>>
        [] sector = "Utilities" -> <<8, 6>>
        [] sector = "Materials" -> <<8, 8>>
        [] sector = "Communication Services" -> <<12, 10>>
        [] sector = "Real Estate" -> <<15, 10>> ]

\* (table[key] || fallback) * RandDen, the draw being r / RandDen
TableOr(table, key, r, fallback) ==
  IF key \in DOMAIN table /\ table[key][1] * RandDen + r * table[key][2] # 0
  THEN table[key][1] * RandDen + r * table[key][2]
  ELSE fallback * RandDen

generateRealisticPE(stockData, r) ==
  Str(ToFixed(10 * TableOr(sectorPEs, stockData.sector, r, 20), RandDen, 1))

generateRealisticVolume(r) ==
  Str(ToFixed(10 * (100 * r + 10 * RandDen), RandDen, 1) \o <<"M">>)

generateRealisticBeta(r) ==
  Str(ToFixed(100 * (8 * RandDen + 8 * r), 10 * RandDen, 2))

generateRealisticDividend(r) ==
  Str(ToFixed(10 * 3 * r, RandDen, 1) \o <<"%">>)

determineTrend(stockData) ==
  IF stockData.changePercent > 100 THEN Str(Literal.Bullish)
  ELSE IF stockData.changePercent < -100 THEN Str(Literal.Bearish)
  ELSE Str(Literal.Neutral)

calculateSupport(stockData, r) ==
  Str(ToFixed(stockData.price * (93 * RandDen + 4 * r), 100 * RandDen, 2))

calculateResistance(stockData, r) ==
  Str(ToFixed(stockData.price * (106 * RandDen + 4 * r), 100 * RandDen, 2))

generateRealisticRSI(stockData, r) ==
  LET baseRSI == IF stockData.changePercent > 0 THEN 55 ELSE 45
  IN Num(RoundDiv(baseRSI * RandDen + 20 * r - 10 * RandDen, RandDen))

generateMACD(stockData) ==
  IF stockData.changePercent > 0 THEN Str(Literal.bullishCrossover)
  ELSE Str(Literal.neutralConsolidation)

calculateMA(stockData, period, r) ==
  LET variation == IF period = 50 THEN 2 ELSE 5
  IN Str(ToFixed(stockData.price * ((98 - variation) * RandDen + 2 * variation * r),
                 100 * RandDen, 2))

generateRevenueGrowth(stockData, r) ==
  Str(ToFixed(TableOr(sectorGrowth, stockData.sector, r, 5), RandDen, 0) \o <<"%">>)

\* parseFloat reads the figure toFixed(0) + '%' made
generateEarningsGrowth(stockData, r1, r2) ==
  LET chars == generateRevenueGrowth(stockData, r1).chars
      revenueGrowth ==
        IF chars[1] = "-" THEN - DigitsValue(SubSeq(chars, 2, Len(chars) - 1))
        ELSE DigitsValue(SubSeq(chars, 1, Len(chars) - 1))
  IN Str(ToFixed(revenueGrowth * RandDen + 5 * r2, RandDen, 0) \o <<"%">>)

generateProfitMargin(stockData, r) ==
  Str(ToFixed(10 * TableOr(sectorMargins, stockData.sector, r, 10), RandDen, 1) \o <<"%">>)

generateROE(r) ==
  Str(ToFixed(10 * (10 * RandDen + 15 * r), RandDen, 1) \o <<"%">>)

generateDebtRatio(r) ==
  Str(ToFixed(100 * (2 * RandDen + 6 * r), 10 * RandDen, 2))

generateCurrentRatio(r) ==
  Str(ToFixed(10 * (12 * RandDen + 10 * r), 10 * RandDen, 1))

confidenceLevels ==
  (Literal.STRONG_BUY :> <<90, 10>>) @@ (Literal.BUY :> <<75, 15>>)
    @@ (Literal.HOLD :> <<60, 20>>) @@ (Literal.SELL :> <<70, 15>>)
    @@ (Literal.STRONG_SELL :> <<85, 15>>)

generateConfidence(rating, r) ==
  Str(IntChars(RoundDiv(TableOr(confidenceLevels, rating.chars, r, 75), RandDen)) \o <<"%">>)

generateSectorRisks(stockData) ==
  IF stockData.sector \in DOMAIN sectorRisks
  THEN Array([i \in 1 .. 5 |-> Str(sectorRisks[stockData.sector][i])])
  ELSE Array([i \in 1 .. 5 |-> Str(defaultRisks[i])])

\* the default with the stock price taken as it is
defaultTargetPriceFlat(stockData) == Str(ToFixed(stockData.price * 100, 100, 2))

\* (stockData.price * 1.12).toFixed(2)
defaultTargetPrice(stockData) == Str(ToFixed(stockData.price * 112, 100, 2))

\* the object parseAnalysisResponse returns for a string content; d holds the
\* draws of Math.random()
AnalysisReport(content, stockData, d, t) ==
  LET targetPrice == OrElse(extractTargetPrice(content), defaultTargetPrice(stockData))
      rating == OrElse(extractRating(content), Str(Literal.HOLD))
  IN [ stock |-> stockData,
       generatedAt |-> [type |-> "string", localeStringOf |-> t],
       summary |-> Str(Literal.summaryFor \o stockData.symbol \o <<" ", "(">>
                         \o stockData.name \o <<")">>),
       isAIGenerated |-> TRUE,
       sections |->
         [ executiveSummary |->
             OrElse(extractSection(content, Literal.EXECUTIVE_SUMMARY),
               OrElse(extractSection(content, Literal.ExecutiveSummary),
                 Str(Literal.professional \o stockData.symbol \o Literal.indicates
                       \o ToLowerCase(rating.chars) \o Literal.recommendationBased))),
           marketPosition |->
             [ currentPrice |-> Num(stockData.price),
               marketCap |-> Str(stockData.marketCap),
               peRatio |-> OrElse(extractMetric(content, Literal.PE),
                                  generateRealisticPE(stockData, d[1])),
               volume |-> generateRealisticVolume(d[2]),
               avgVolume |-> generateRealisticVolume(d[1]),
               beta |-> OrElse(extractMetric(content, Literal.beta),
                               generateRealisticBeta(d[2])),
               dividendYield |-> OrElse(extractMetric(content, Literal.dividend),
                                        generateRealisticDividend(d[1])) ],
           technicalAnalysis |->
             [ trend |-> OrElse(extractTrend(content), determineTrend(stockData)),
               support |-> OrElse(extractSupport(content),
                                  calculateSupport(stockData, d[2])),
               resistance |-> OrElse(extractResistance(content),
                                     calculateResistance(stockData, d[1])),
               rsi |-> OrElse(extractMetric(content, Literal.RSI),
                              generateRealisticRSI(stockData, d[2])),
               macd |-> OrElse(extractMACD(content), generateMACD(stockData)),
               movingAverages |->
                 [ ma50 |-> calculateMA(stockData, 50, d[1]),
                   ma200 |-> calculateMA(stockData, 200, d[2]) ] ],
           fundamentalAnalysis |->
             [ revenueGrowth |-> OrElse(extractMetric(content, Literal.revenueGrowth),
                                        generateRevenueGrowth(stockData, d[1])),
               earningsGrowth |-> OrElse(extractMetric(content, Literal.earningsGrowth),
                                         generateEarningsGrowth(stockData, d[2], d[1])),
               profitMargin |-> OrElse(extractMetric(content, Literal.profitMargin),
                                       generateProfitMargin(stockData, d[2])),
               roe |-> OrElse(extractMetric(content, Literal.ROE), generateROE(d[1])),
               debtToEquity |-> generateDebtRatio(d[2]),
               currentRatio |-> generateCurrentRatio(d[1]) ],
           recommendation |->
             [ rating |-> rating,
               targetPrice |-> targetPrice,
               timeframe |-> OrElse(extractTimeframe(content), Str(Literal.twelveMonths)),
               confidence |-> OrElse(extractConfidence(content),
                                     generateConfidence(rating, d[2])) ],
           risks |-> OrElse(extractRiskFactors(content), generateSectorRisks(stockData)) ] ]

\* a content that is no string has no match method: the TypeError is caught
\* and replaced
parseAnalysisResponse(content, stockData, d, t) ==
  IF content = Null \/ content = Undefined
  THEN Throw(Literal.failedToParse)
  ELSE Return(AnalysisReport(content.chars, stockData, d, t))

\* what this.openai.chat.completions.create settles with: a rejection, or a
\* response whose choices may be empty and whose message content may be null
CompletionOutcomes ==
  { [kind |-> "rejected", message |-> m] :
      m \in { <<"4", "0", "1", " ", "I", "n", "c", "o", "r", "r", "e", "c", "t", " ", "A", "P", "I", " ", "k", "e", "y">>,
           <<"4", "2", "9", " ", "Y", "o", "u", " ", "e", "x", "c", "e", "e", "d", "e", "d", " ", "y", "o", "u", "r", " ", "q", "u", "o", "t", "a">>,
           <<"4", "2", "9", " ", "R", "a", "t", "e", " ", "l", "i", "m", "i", "t", " ", "r", "e", "a", "c", "h", "e", "d">>,
           <<"4", "2", "9", " ", "r", "a", "t", "e", " ", "l", "i", "m", "i", "t">>,
           <<"C", "o", "n", "n", "e", "c", "t", "i", "o", "n", " ", "e", "r", "r", "o", "r", ".">> } }
    \cup { [kind |-> "response", choices |-> <<>>] }
    \cup { [kind |-> "response", choices |-> <<[message |-> [content |-> Null]]>>] }
    \cup { [kind |-> "response", choices |-> <<[message |-> [content |-> Str(Contents[i])]]>>] :
             i \in 1 .. Len(Contents) }

\* the draws of Math.random() one report consumes
ReportDraws == RandomDraws \X RandomDraws

\* the catch of generateStockAnalysis with the error swallowed
CatchAIErrorReturnsNull(error) == Return(Null)

\* the catch of generateStockAnalysis
CatchAIError(error) ==
  IF Includes(error.message, Literal.apiKey) THEN Throw(Literal.invalidKey)
  ELSE IF Includes(error.message, Literal.quota) THEN Throw(Literal.quotaExceeded)
  ELSE IF Includes(error.message, Literal.rateLimit) THEN Throw(Literal.rateLimitExceeded)
  ELSE Throw(Literal.analysisFailed \o error.message)

\* generateStockAnalysis from the point the completion call settles
generateStockAnalysis(stockData, outcome, d, t) ==
  IF outcome.kind = "rejected" THEN CatchAIError([message |-> outcome.message])
  ELSE IF outcome.choices = <<>> THEN CatchAIError([message |-> Literal.noChoice])
  ELSE LET parsed == parseAnalysisResponse(outcome.choices[1].message.content,
                                           stockData, d, t)
       IN IF parsed.threw THEN CatchAIError(parsed.error) ELSE parsed

\* generateStockAnalysis is called and awaits the completion
GenerateStockAnalysis(stockData) ==
  /\ aiCall.state \in {"idle", "settled"}
  /\ aiCall' = [state |-> "pending", stock |-> stockData]
  /\ UNCHANGED <<now, alphaVantageKey, quoteVars, newsVars, helperCall, dashboard>>

\* the completion call settles and generateStockAnalysis returns or throws
CompletionSettle ==
  /\ aiCall.state = "pending"
  /\ \E outcome \in CompletionOutcomes, d \in ReportDraws :
       aiCall' = [state |-> "settled", stock |-> aiCall.stock, outcome |-> outcome,
                  result |-> generateStockAnalysis(aiCall.stock, outcome, d, now)]
  /\ UNCHANGED <<now, alphaVantageKey, quoteVars, newsVars, helperCall, dashboard>>

InitAI ==
  /\ Init

NextAI ==
  \/ \E stockData \in Stocks : GenerateStockAnalysis(stockData)
  \/ CompletionSettle

SpecAI == InitAI /\ [][NextAI]_vars

(***************************************************************************)
(* Properties of AIFinancialService.                                       *)
(***************************************************************************)
\* the fields of a report that carry a value to display
ReportLeaves(report) ==
  LET s == report.sections
  IN << report.generatedAt, report.summary, s.executiveSummary,
        s.marketPosition.currentPrice, s.marketPosition.marketCap,
        s.marketPosition.peRatio, s.marketPosition.volume,
        s.marketPosition.avgVolume, s.marketPosition.beta,
        s.marketPosition.dividendYield, s.technicalAnalysis.trend,
        s.technicalAnalysis.support, s.technicalAnalysis.resistance,
        s.technicalAnalysis.rsi, s.technicalAnalysis.macd,
        s.technicalAnalysis.movingAverages.ma50,
        s.technicalAnalysis.movingAverages.ma200,
        s.fundamentalAnalysis.revenueGrowth, s.fundamentalAnalysis.earningsGrowth,
        s.fundamentalAnalysis.profitMargin, s.fundamentalAnalysis.roe,
        s.fundamentalAnalysis.debtToEquity, s.fundamentalAnalysis.currentRatio,
        s.recommendation.rating, s.recommendation.targetPrice,
        s.recommendation.timeframe, s.recommendation.confidence, s.risks >>

\* v is neither null nor undefined nor an empty string, and a list has
\* entries, each a non-empty string
Populated(v) ==
  /\ v # Null
  /\ v # Undefined
  /\ v # Str(<<>>)
  /\ v.type = "array" =>
       /\ v.items # <<>>
       /\ \A i \in 1 .. Len(v.items) : v.items[i] # Null /\ v.items[i] # Str(<<>>)

FullyPopulated(report) ==
  \A i \in 1 .. Len(ReportLeaves(report)) : Populated(ReportLeaves(report)[i])

\* the completion answered with a text, of whatever length
HasText(outcome) ==
  /\ outcome.kind = "response"
  /\ outcome.choices # <<>>
  /\ outcome.choices[1].message.content # Null

AISettled == aiCall.state = "settled"

\* C8: for every text the collaborator answers with, the empty text
\* included, parseAnalysisResponse returns a report in which every field of
\* every section is neither null nor empty: a figure the text does not
\* yield is filled from the default generators.
C8_ReportFullyPopulated ==
  (AISettled /\ HasText(aiCall.outcome)) =>
    /\ ~ aiCall.result.threw
    /\ FullyPopulated(aiCall.result.value)

\* a report was made from a text that yields none of the figures (the empty
\* text), and one from a text whose summary section and MACD are empty
C8_Witness ==
  /\ AISettled
  /\ HasText(aiCall.outcome)
  /\ aiCall.outcome.choices[1].message.content.chars = Contents[5]
  /\ ~ aiCall.result.threw
  /\ aiCall.result.value.sections.technicalAnalysis.macd
       = generateMACD(aiCall.stock)
  /\ aiCall.result.value.sections.risks = generateSectorRisks(aiCall.stock)

\* C9: generateStockAnalysis reports a failure to its caller exactly when
\* the collaborator produced no text for the request (the call was rejected,
\* the response carries no choice, or its content is null); the failure is
\* an error with a message, and in every other condition a fully populated
\* report is returned.
C9_FailsOnlyWithoutText ==
  AISettled =>
    /\ aiCall.result.threw <=> ~ HasText(aiCall.outcome)
    /\ aiCall.result.threw => aiCall.result.error.message # <<>>
    /\ ~ aiCall.result.threw =>
         /\ aiCall.result.value # Null
         /\ FullyPopulated(aiCall.result.value)

\* the response carried a null content and the call failed
C9_Witness ==
  /\ AISettled
  /\ aiCall.outcome.kind = "response"
  /\ aiCall.outcome.choices # <<>>
  /\ aiCall.outcome.choices[1].message.content = Null
  /\ aiCall.result.threw
  /\ aiCall.result.error.message = Literal.analysisFailed \o Literal.failedToParse

\* the text "Our TARGET PRICE is $150, rating BUY."
WordedTargetText == Contents[7]

\* C11: for a text in which the words 'target price' are followed by other
\* words and then a dollar amount, and which holds a rating keyword, the
\* report carries the rating "BUY" and the target price 150.0 of the text,
\* not the default target price.
C11_TargetPriceBehindWords ==
  (AISettled /\ HasText(aiCall.outcome)
     /\ aiCall.outcome.choices[1].message.content.chars = WordedTargetText) =>
    /\ aiCall.result.value.sections.recommendation.rating = Str(Literal.BUY)
    /\ aiCall.result.value.sections.recommendation.targetPrice = Num(15000)

\* the content of the settled call, when it is a text
ContentChars == aiCall.outcome.choices[1].message.content.chars

\* C12: whenever extractRating finds no match the report's rating is "HOLD",
\* and whenever extractTargetPrice finds no match the report's target price
\* is the stock price times 1.12 (printed with two decimals), each field
\* independently of the other; a text with neither has both defaults.
C12_DefaultsPerField ==
  (AISettled /\ HasText(aiCall.outcome)) =>
    LET recommendation == aiCall.result.value.sections.recommendation
    IN /\ extractRating(ContentChars) = Null =>
            recommendation.rating = Str(Literal.HOLD)
       /\ extractTargetPrice(ContentChars) = Null =>
            /\ recommendation.targetPrice.type = "string"
            /\ ParseDecimal(recommendation.targetPrice.chars)
                 = Num(RoundDiv(aiCall.stock.price * 112, 100))

\* a report from a text with a rating keyword and no target-price match:
\* the rating is the text's, the target price the default
C12_Witness ==
  /\ AISettled
  /\ HasText(aiCall.outcome)
  /\ ContentChars = WordedTargetText
  /\ aiCall.stock.price = 19542
  /\ aiCall.result.value.sections.recommendation.rating = Str(Literal.BUY)
  /\ aiCall.result.value.sections.recommendation.targetPrice
       = Str(<<"2", "1", "8", ".", "8", "7">>)

(***************************************************************************)
(* Helpers of NewsService called on their own.                             *)
(***************************************************************************)
\* the headlines determineAlertTypeFromHeadline is called with
Headlines ==
  << <<"S", "t", "o", "c", "k", " ", "s", "u", "r", "g", "e", "s", " ", "a",
     "f", "t", "e", "r", " ", "e", "a", "r", "n", "i", "n", "g", "s", " ",
     "b", "e", "a", "t">>,
     <<"S", "h", "a", "r", "e", "s", " ", "p", "l", "u", "n", "g", "e", " ",
     "o", "n", " ", "g", "u", "i", "d", "a", "n", "c", "e", " ", "c", "u",
     "t">>,
     <<"C", "o", "m", "p", "a", "n", "y", " ", "n", "a", "m", "e", "s", " ",
     "n", "e", "w", " ", "C", "F", "O">>,
     <<"S", "T", "O", "C", "K", "S", " ", "R", "A", "L", "L", "Y", " ", "O",
     "N", " ", "F", "E", "D", " ", "P", "A", "U", "S", "E">>,
     <<"S", "h", "a", "r", "e", "s", " ", "g", "a", "i", "n", ",", " ", "t",
     "h", "e", "n", " ", "f", "a", "l", "l">>,
     <<"M", "a", "r", "k", "e", "t", "s", " ", "C", "R", "A", "S", "H">>,
     <<"S", "u", "p", "p", "l", "y", " ", "w", "o", "r", "r", "i", "e", "s",
     " ", "w", "e", "i", "g", "h", " ", "o", "n", " ", "c", "h", "i", "p",
     "s">>,
     <<"O", "i", "l", " ", "p", "r", "i", "c", "e", "s", " ", "d", "e", "c",
     "l", "i", "n", "e">> >>

\* formatTimeAgo with "hours" and "days" whatever the count
formatTimeAgoPlural(timestamp, t) ==
  LET diffMins == (t - timestamp.time) \div 60000
      diffHours == diffMins \div 60
      diffDays == diffHours \div 24
  IN IF diffMins < 1 THEN Literal.justNow
     ELSE IF diffMins < 60 THEN IntChars(diffMins) \o Literal.minsAgo
     ELSE IF diffHours < 24
     THEN IntChars(diffHours) \o Literal.hour \o Literal.plural \o Literal.ago
     ELSE IntChars(diffDays) \o Literal.day \o Literal.plural \o Literal.ago

\* formatTimeAgo(timestamp) called at time t; with the Invalid Date every
\* difference is NaN and every comparison false
formatTimeAgo(timestamp, t) ==
  IF ~ timestamp.valid THEN Literal.nan \o Literal.day \o Literal.ago
  ELSE LET diffMs == t - timestamp.time
           diffMins == diffMs \div 60000
           diffHours == diffMins \div 60
           diffDays == diffHours \div 24
       IN IF diffMins < 1 THEN Literal.justNow
          ELSE IF diffMins < 60 THEN IntChars(diffMins) \o Literal.minsAgo
          ELSE IF diffHours < 24
          THEN IntChars(diffHours) \o Literal.hour
                 \o (IF diffHours > 1 THEN Literal.plural ELSE <<>>) \o Literal.ago
          ELSE IntChars(diffDays) \o Literal.day
                 \o (IF diffDays > 1 THEN Literal.plural ELSE <<>>) \o Literal.ago

\* determineAlertTypeFromHeadline(headline) is called
DetermineAlertTypeFromHeadline(headline) ==
  /\ helperCall' = [fn |-> "determineAlertTypeFromHeadline", headline |-> headline,
                    result |-> determineAlertTypeFromHeadline(headline)]
  /\ UNCHANGED <<now, alphaVantageKey, quoteVars, newsVars, aiCall, dashboard>>

\* determineAlertType(sentimentScore) is called
DetermineAlertType(sentimentScore) ==
  /\ helperCall' = [fn |-> "determineAlertType", score |-> sentimentScore,
                    result |-> determineAlertType(sentimentScore)]
  /\ UNCHANGED <<now, alphaVantageKey, quoteVars, newsVars, aiCall, dashboard>>

\* generateRealisticMockData(symbol) is called on its own; draws are the
\* values Math.random() returns during the call
GenerateRealisticMockData(symbol) ==
  /\ \E draws \in DrawTriples :
       helperCall' = [fn |-> "generateRealisticMockData", symbol |-> symbol,
                      draws |-> draws, result |-> MockData(symbol, draws, now)]
  /\ UNCHANGED <<now, alphaVantageKey, quoteVars, newsVars, aiCall, dashboard>>

\* formatTimeAgo(timestamp) is called
FormatTimeAgo(timestamp) ==
  /\ helperCall' = [fn |-> "formatTimeAgo", timestamp |-> timestamp, at |-> now,
                    result |-> formatTimeAgo(timestamp, now)]
  /\ UNCHANGED <<now, alphaVantageKey, quoteVars, newsVars, aiCall, dashboard>>

\* the timestamps formatTimeAgo is called with have the ages listed, in
\* milliseconds, at the start of the clock; the scores determineAlertType is
\* called with are in hundredths
NextHelpers ==
  \/ \E i \in 1 .. Len(Headlines) : DetermineAlertTypeFromHeadline(Headlines[i])
  \/ \E age \in { 0, 30000, 59999, 60000, 300000, 3599999, 3600000, 5400000, 7200000, 86399999, 86400000, 90000000, 172800000, 180000000, -60000 } :
       FormatTimeAgo(DateOf(0 - age))
  \/ FormatTimeAgo(InvalidDate)
  \/ \E num \in { -100, -35, -21, -20, -19, 0, 19, 20, 21, 35, 100 } :
       DetermineAlertType([num |-> num])
  \/ DetermineAlertType(Undefined)
  \/ \E symbol \in Symbols : GenerateRealisticMockData(symbol)
  \/ TickNews

SpecHelpers == Init /\ [][NextHelpers]_vars

(***************************************************************************)
(* Properties of the helpers of NewsService.                               *)
(***************************************************************************)
\* the text s holds the word w, whatever the case of s
HoldsWord(s, w) ==
  \E i \in 1 .. Len(s) : LitAt(s, i, w)

Classified(i, type) ==
  (helperCall.fn = "determineAlertTypeFromHeadline" /\ helperCall.headline = Headlines[i])
    => helperCall.result = type

\* C13: determineAlertTypeFromHeadline returns 'bullish' if the headline
\* holds a bullish keyword in whatever case, otherwise 'bearish' if it holds
\* a bearish keyword, otherwise 'neutral'; "Stock surges after earnings
\* beat" is bullish, "Shares plunge on guidance cut" bearish, "Company
\* names new CFO" neutral, and a headline with keywords of both sets
\* bullish.
C13_HeadlineClassification ==
  /\ helperCall.fn = "determineAlertTypeFromHeadline" =>
       helperCall.result =
         IF \E w \in bullishKeywords : HoldsWord(helperCall.headline, w) THEN "bullish"
         ELSE IF \E w \in bearishKeywords : HoldsWord(helperCall.headline, w) THEN "bearish"
         ELSE "neutral"
  /\ Classified(1, "bullish")
  /\ Classified(2, "bearish")
  /\ Classified(3, "neutral")
  /\ Classified(4, "bullish")
  /\ Classified(5, "bullish")
  /\ Classified(6, "bearish")

\* the headline in capitals was classified, and so was the one that holds
\* a keyword of each set
C13_Witness ==
  /\ helperCall.fn = "determineAlertTypeFromHeadline"
  /\ helperCall.headline = Headlines[4]
  /\ helperCall.result = "bullish"

TimeAgoIs(age, text) ==
  (helperCall.fn = "formatTimeAgo" /\ helperCall.timestamp.valid
     /\ helperCall.at - helperCall.timestamp.time = age)
    => helperCall.result = text

\* C14: for a timestamp of age d, formatTimeAgo returns "Just now" when d is
\* under a minute, "N mins ago" with the whole minutes N up to 59 minutes,
\* "H hour(s) ago" with the whole hours H up to 23 hours ("hour" when H = 1)
\* and "D day(s) ago" with the whole days D from there ("day" when D = 1);
\* 30 s gives "Just now", 5 min "5 mins ago", 90 min "1 hour ago" and 50 h
\* "2 days ago".
C14_TimeAgo ==
  /\ (helperCall.fn = "formatTimeAgo" /\ helperCall.timestamp.valid) =>
       LET d == helperCall.at - helperCall.timestamp.time
           H == d \div 3600000
           D == d \div 86400000
       IN helperCall.result =
            IF d < 60000 THEN Literal.justNow
            ELSE IF d < 3600000 THEN IntChars(d \div 60000) \o Literal.minsAgo
            ELSE IF d < 86400000
            THEN IF H = 1 THEN <<"1">> \o Literal.hour \o Literal.ago
                 ELSE IntChars(H) \o Literal.hour \o <<"s">> \o Literal.ago
            ELSE IF D = 1 THEN <<"1">> \o Literal.day \o Literal.ago
                 ELSE IntChars(D) \o Literal.day \o <<"s">> \o Literal.ago
  /\ TimeAgoIs(30000, <<"J", "u", "s", "t", " ", "n", "o", "w">>)
  /\ TimeAgoIs(300000, <<"5", " ", "m", "i", "n", "s", " ", "a", "g", "o">>)
  /\ TimeAgoIs(5400000, <<"1", " ", "h", "o", "u", "r", " ", "a", "g", "o">>)
  /\ TimeAgoIs(180000000, <<"2", " ", "d", "a", "y", "s", " ", "a", "g", "o">>)

\* formatTimeAgo was called with a timestamp 90 minutes old
C14_Witness ==
  /\ helperCall.fn = "formatTimeAgo"
  /\ helperCall.timestamp.valid
  /\ helperCall.at - helperCall.timestamp.time = 5400000
  /\ helperCall.result = <<"1", " ", "h", "o", "u", "r", " ", "a", "g", "o">>

(***************************************************************************)
(* Properties of the provider chain and of the caches.                     *)
(***************************************************************************)
\* the quote providers the constructor of MarketDataService holds a key for
\* (the Polygon key is not modelled)
ConfiguredQuoteProviders ==
  (IF alphaVantageKey THEN {"Alpha Vantage"} ELSE {})
    \cup (IF finnhubKey THEN {"Finnhub"} ELSE {})

\* the providers a settled call has asked and seen fail: with a key, the
\* simulated record comes from the catch block behind the Alpha Vantage call
FailedQuoteProviders(task) ==
  IF alphaVantageKey /\ task.path = "mock" THEN {"Alpha Vantage"} ELSE {}

\* C15: getRealTimeStockData tries the configured quote providers in order
\* and the first success wins: a call returns the simulated record only
\* when every configured provider has been asked and has failed.
C15_SimulatedOnlyWhenAllFailed ==
  \A i \in 1 .. Len(tasks) :
    (tasks[i].state = "fulfilled" /\ tasks[i].path = "mock") =>
      ConfiguredQuoteProviders \subseteq FailedQuoteProviders(tasks[i])

\* the number of entries of s that are x
CountIn(s, x) == Cardinality({ i \in 1 .. Len(s) : s[i] = x })

\* the same entries, in any order
SameEntries(a, b) ==
  /\ Len(a) = Len(b)
  /\ \A i \in 1 .. Len(a) : CountIn(a, a[i]) = CountIn(b, a[i])

FromSource(s, source) == SelectSeq(s, LAMBDA a : a.source = source)

\* what a provider can add to the alerts: nothing, or the alerts of the
\* first five articles of its feed
AVContributions ==
  { <<>>, [i \in 1 .. Min(FeedSlice, Len(avFeed)) |-> AVAlert(avFeed[i])] }

FHContributions ==
  { <<>>, [i \in 1 .. Min(FeedSlice, Len(fhFeed)) |-> FHAlert(fhFeed[i])] }

FreshReturn == newsReturn # Undefined /\ newsReturn.path = "fresh"

\* C16: on a cache miss getMarketAlerts asks every configured news provider
\* whatever the others answered: after Alpha Vantage, Finnhub is asked when
\* it has a key; the list returned holds exactly the entries of the
\* concatenation of the answers, at most 10, at most 5 of each provider, and
\* the part of each provider is what that provider alone contributed,
\* whether or not the other failed.
C16_UnionOfProviders ==
  /\ [](FreshReturn /\ newsReturn.union # <<>> =>
         LET union == newsReturn.union
             list == newsReturn.value
         IN /\ SameEntries(list, union)
            /\ Len(list) <= AlertsLimit
            /\ Len(FromSource(list, "Alpha Vantage")) <= FeedSlice
            /\ Len(FromSource(list, "Finnhub")) <= FeedSlice
            /\ union = FromSource(union, "Alpha Vantage") \o FromSource(union, "Finnhub")
            /\ FromSource(union, "Alpha Vantage")
                 \in (IF alphaVantageKey THEN AVContributions ELSE {<<>>})
            /\ FromSource(union, "Finnhub")
                 \in (IF finnhubKey THEN FHContributions ELSE {<<>>}))
  /\ [][newsPc = "awaitAV" /\ newsPc' # newsPc /\ finnhubKey =>
          newsPc' = "awaitFH"]_vars
  /\ [][newsPc = "awaitFH" /\ newsPc' = "idle" =>
          FromSource(newsReturn'.union, "Alpha Vantage") = alerts]_vars

\* Alpha Vantage had articles and failed; the five Finnhub alerts of a feed
\* of six are returned
C16_Witness ==
  /\ FreshReturn
  /\ alphaVantageKey /\ avFeed # <<>>
  /\ FromSource(newsReturn.union, "Alpha Vantage") = <<>>
  /\ Len(fhFeed) > FeedSlice
  /\ Len(FromSource(newsReturn.value, "Finnhub")) = FeedSlice

\* both providers answered with five alerts each
C16_BothWitness ==
  /\ FreshReturn
  /\ Len(newsReturn.value) = AlertsLimit
  /\ Len(FromSource(newsReturn.value, "Alpha Vantage")) = FeedSlice

\* C17: when the concatenation of the providers' answers is empty (no news
\* provider has a key, or each one failed or had nothing), getMarketAlerts
\* returns the simulated batch: exactly 6 alerts, each with isLive false,
\* the source "Market Simulation" and a timestamp not later than the time
\* of generation.
C17_SimulatedBatch ==
  FreshReturn /\ newsReturn.union = <<>> =>
    LET list == newsReturn.value
        generatedAt == newsCache.timestamp
    IN /\ Len(list) = 6
       /\ \A i \in 1 .. Len(list) :
            /\ list[i].isLive = FALSE
            /\ list[i].source = "Market Simulation"
            /\ list[i].timestamp.valid
            /\ list[i].timestamp.time <= generatedAt

\* both providers have a key and articles, both failed, and the simulated
\* batch holds an alert older than its generation
C17_Witness ==
  /\ FreshReturn /\ newsReturn.union = <<>>
  /\ alphaVantageKey /\ avFeed # <<>>
  /\ finnhubKey /\ fhFeed # <<>>
  /\ Len(newsReturn.value) = 6
  /\ \E i \in 1 .. 6 : newsReturn.value[i].timestamp.time < newsCache.timestamp

(***************************************************************************)
(* The two services of the dashboard on one clock: the quotes of one       *)
(* symbol are polled and the alerts are loaded.  Each provider's news feed *)
(* holds one article.                                                      *)
(***************************************************************************)
InitCaches ==
  /\ now = 0
  /\ alphaVantageKey \in BOOLEAN
  /\ finnhubKey \in BOOLEAN
  /\ avFeed = (IF alphaVantageKey THEN <<AVArticle(1, -60000, "iso")>> ELSE <<>>)
  /\ fhFeed = (IF finnhubKey THEN <<FHArticle(1, -120000)>> ELSE <<>>)
  /\ cache = [s \in Symbols |-> Undefined]
  /\ batchPc = "idle"
  /\ batchSymbols = <<>>
  /\ tasks = <<>>
  /\ batchResult = <<>>
  /\ newsCache = Undefined
  /\ newsPc = "idle"
  /\ alerts = <<>>
  /\ newsReturn = Undefined
  /\ aiCall = [state |-> "idle"]
  /\ helperCall = [fn |-> "none"]
  /\ dashboard = DashboardStart

NextCaches ==
  \/ GetBatchStockData(<<"AAPL">>)
  \/ FetchSettle(1)
  \/ BatchResolve
  \/ BatchReturn
  \/ Tick
  \/ GetMarketAlerts
  \/ AVNewsSettle
  \/ FHNewsSettle
  \/ TickNews

SpecCaches == InitCaches /\ [][NextCaches]_vars

\* a step that is a call of getBatchStockData
QuoteCallStep == batchPc = "idle" /\ batchPc' = "awaiting"

\* a step that is a call of getMarketAlerts
NewsCallStep ==
  newsPc = "idle" /\ <<newsPc, newsReturn>>' # <<newsPc, newsReturn>>

\* C18: a cache entry is served if and only if now - insertedAt < TTL, with
\* 60 000 ms for the quotes and 300 000 ms for the news: a call answers from
\* the cache exactly when the entry exists and is younger than the TTL, and
\* with an entry of age TTL or more it goes on to the provider or to the
\* simulation.
C18_ServedIffYoungerThanTTL ==
  [][/\ QuoteCallStep =>
          \A i \in 1 .. Len(tasks') :
            LET entry == cache[tasks'[i].symbol]
            IN /\ tasks'[i].path = "cache"
                    <=> (entry # Undefined /\ now - entry.timestamp < 60000)
               /\ tasks'[i].path = "cache" => tasks'[i].value = entry.data
     /\ NewsCallStep =>
          /\ (newsPc' = "idle" /\ newsReturn'.path = "cache")
               <=> (newsCache # Undefined /\ now - newsCache.timestamp < 300000)
          /\ (newsPc' = "idle" /\ newsReturn'.path = "cache")
               => newsReturn'.value = newsCache.data]_vars

\* the news entry is exactly 300 000 ms old and the call has gone on to a
\* provider
C18_Witness ==
  /\ newsCache # Undefined
  /\ now - newsCache.timestamp = 300000
  /\ newsPc \in {"awaitAV", "awaitFH"}

\* the quote entry is exactly 60 000 ms old and the call has gone on to the
\* provider
C18_QuoteWitness ==
  /\ batchPc = "awaiting"
  /\ \E i \in 1 .. Len(tasks) :
       /\ cache[tasks[i].symbol] # Undefined
       /\ now - cache[tasks[i].symbol].timestamp = 60000
       /\ tasks[i].state = "pending"

\* entries younger than the TTL by one step of the clock were served
C18_ServedWitness ==
  /\ newsReturn # Undefined /\ newsReturn.path = "cache"
  /\ now - newsCache.timestamp = NewsStep
  /\ batchPc = "awaiting"
  /\ \E i \in 1 .. Len(tasks) : tasks[i].path = "cache"

\* C19: the cache entry of a symbol is created by the first successful live
\* fetch of the symbol and changed only by a later one: every change of an
\* entry is the settling of a call for that symbol with the provider's quote,
\* which becomes the entry; no entry is ever deleted, stale or not; and a
\* call that ends in the simulated record leaves the entry of its symbol as
\* it was.
C19_CacheChangedOnlyByLiveFetch ==
  [][/\ \A s \in Symbols :
          cache'[s] # cache[s] =>
            \E i \in 1 .. Len(tasks) :
              /\ tasks[i].symbol = s
              /\ tasks[i].state = "pending"
              /\ tasks'[i].path = "live"
              /\ cache'[s] = [data |-> tasks'[i].value, timestamp |-> now]
     /\ \A s \in Symbols : cache[s] # Undefined => cache'[s] # Undefined
     /\ \A i \in 1 .. Len(tasks') :
          (tasks'[i].path = "mock" /\ (i > Len(tasks) \/ tasks[i] # tasks'[i])) =>
            cache'[tasks'[i].symbol] = cache[tasks'[i].symbol]]_vars

\* the entry of a symbol is stale, the call for the symbol has ended in the
\* simulated record, and the entry is still there
C19_Witness ==
  /\ batchPc = "awaiting"
  /\ \E i \in 1 .. Len(tasks) :
       /\ tasks[i].path = "mock"
       /\ cache[tasks[i].symbol] # Undefined
       /\ now - cache[tasks[i].symbol].timestamp >= cacheTimeout

\* C20: when the quote provider fails for a symbol, the simulated record
\* comes back together with the reason of the failure: the item of the batch
\* built from it carries that reason in its error field.
C20_FallbackCarriesReason ==
  batchPc = "resolved" =>
    \A i \in 1 .. Len(tasks) :
      (alphaVantageKey /\ tasks[i].path = "mock") =>
        /\ batchResult[i].data = tasks[i].value
        /\ batchResult[i].error # Null

(***************************************************************************)
(* Properties of the classification of the alerts.                         *)
(***************************************************************************)
ScoredCall ==
  helperCall.fn = "determineAlertType" /\ helperCall.score # Undefined

\* C21: for a numeric sentiment score determineAlertType returns 'bullish'
\* above 0.2, 'bearish' below -0.2 and 'neutral' otherwise; the scores 0.2
\* and -0.2 themselves are 'neutral'.
C21_ScoreThresholds ==
  ScoredCall =>
    /\ helperCall.result =
         IF helperCall.score.num > 20 THEN "bullish"
         ELSE IF helperCall.score.num < -20 THEN "bearish"
         ELSE "neutral"
    /\ helperCall.score.num \in {20, -20} => helperCall.result = "neutral"

\* the score 0.2 was classified
C21_Witness ==
  /\ ScoredCall
  /\ helperCall.score.num = 20
  /\ helperCall.result = "neutral"

\* C22: every news item without a sentiment score, of whichever provider,
\* gets its alert type from the scan of its headline against the keyword
\* sets; the absence of the score alone never makes it 'neutral'.
C22_ScorelessByHeadline ==
  FreshReturn =>
    \A i \in 1 .. Len(newsReturn.value) :
      LET alert == newsReturn.value[i]
      IN /\ alert.source = "Alpha Vantage" =>
              LET article == avFeed[alert.id.index]
              IN article.overall_sentiment_score = Undefined =>
                   alert.type = determineAlertTypeFromHeadline(article.title)
         /\ alert.source = "Finnhub" =>
              alert.type = determineAlertTypeFromHeadline(fhFeed[alert.id.index].headline)

(***************************************************************************)
(* Properties of the risks of a report.                                    *)
(***************************************************************************)
\* the five risks of the sector of the stock, or the five generic ones
FallbackRisks(stockData) ==
  IF stockData.sector \in DOMAIN sectorRisks THEN sectorRisks[stockData.sector]
  ELSE defaultRisks

\* text is a fragment of the content between two delimiters, longer than 15
\* characters, with no white space or punctuation in front
RiskFragment(text, content) ==
  /\ Len(text) > 15
  /\ Includes(content, text)
  /\ \A k \in 1 .. Len(text) : text[k] \notin RiskDelimiters
  /\ text[1] \notin WhiteSpace /\ text[Len(text)] \notin WhiteSpace

\* C23: the risks of every report are 1 to 5 entries: either fragments of
\* the text's risk section between bullet and number delimiters, each longer
\* than 15 characters and without leading punctuation, at most the first 5
\* of them in the order of the text, or, when the text has no risk section
\* or no fragment qualifies, the 5 entries of the stock's sector, the 5
\* generic ones if the sector is not in the table.
C23_RisksOneToFive ==
  (AISettled /\ HasText(aiCall.outcome)) =>
    LET risks == aiCall.result.value.sections.risks.items
        fromText == extractRiskFactors(ContentChars) # Null
    IN /\ Len(risks) \in 1 .. 5
       /\ fromText =>
            \A i \in 1 .. Len(risks) : RiskFragment(risks[i].chars, ContentChars)
       /\ ~ fromText =>
            /\ Len(risks) = 5
            /\ \A i \in 1 .. 5 : risks[i] = Str(FallbackRisks(aiCall.stock)[i])
       /\ ContentChars = Contents[1] => Len(risks) = 2
       /\ ContentChars \in {Contents[2], Contents[3], Contents[5], Contents[6]} =>
            ~ fromText
       /\ ContentChars = Contents[8] =>
            /\ Len(risks) = 5
            /\ risks[1] = Str(<<"R", "i", "s", "i", "n", "g", " ", "i", "n", "p", "u", "t", " ", "c", "o", "s", "t", "s", " ", "a", "n", "d", " ", "w", "a", "g", "e", "s">>)
            /\ \A i \in 1 .. 4 :
                 \E a, b \in 1 .. Len(ContentChars) :
                   /\ a < b
                   /\ LitAt(ContentChars, a, risks[i].chars)
                   /\ LitAt(ContentChars, b, risks[i + 1].chars)

\* a text with six qualifying fragments gave five risks, for a stock of a
\* sector in the table
C23_Witness ==
  /\ AISettled /\ HasText(aiCall.outcome)
  /\ ContentChars = Contents[8]
  /\ aiCall.stock.sector \in DOMAIN sectorRisks
  /\ Len(aiCall.result.value.sections.risks.items) = 5

\* a text whose risk section holds only a short fragment gave the generic
\* risks for a stock whose sector is not in the table
C23_FallbackWitness ==
  /\ AISettled /\ HasText(aiCall.outcome)
  /\ ContentChars = Contents[5]
  /\ aiCall.stock.sector \notin DOMAIN sectorRisks
  /\ aiCall.result.value.sections.risks.items[1] = Str(defaultRisks[1])

(***************************************************************************)
(* Properties of the simulated quotes.                                     *)
(***************************************************************************)
\* C24: in every simulated quote the derived fields follow from the price
\* and the change the record itself carries (two decimals each): high is
\* price * 1.02, low is price * 0.98, both rounded to two decimals, and
\* previousClose is price - change.
C24_DerivedFromReturnedPrice ==
  \A i \in 1 .. Len(tasks) :
    (tasks[i].state = "fulfilled" /\ tasks[i].path = "mock") =>
      LET v == tasks[i].value
      IN /\ v.high = RoundDiv(v.price * 102, 100)
         /\ v.low = RoundDiv(v.price * 98, 100)
         /\ v.previousClose = v.price - v.change

MockCall == helperCall.fn = "generateRealisticMockData"

\* C25: the generator of simulated quotes is a function of its symbol and of
\* the random draws alone, without side effects: two invocations in a row
\* with the same symbol and the same draws return identical records, and an
\* invocation changes neither cache.
C25_FunctionOfSymbolAndDraws ==
  [][(MockCall' /\ helperCall' # helperCall) =>
       /\ cache' = cache /\ newsCache' = newsCache
       /\ (MockCall /\ helperCall'.symbol = helperCall.symbol
                    /\ helperCall'.draws = helperCall.draws) =>
            helperCall'.result = helperCall.result]_vars

(***************************************************************************)
(* Properties of the calls of one batch.                                   *)
(***************************************************************************)
\* the record a call of getRealTimeStockData(symbol) on its own returns when
\* the provider answers with the quote of the symbol at time t
LiveRecord(symbol, t) ==
  fetchAlphaVantageData(
    [kind |-> "json", body |-> ("Global Quote" :> GlobalQuote(symbol))], t).value

\* C26: the calls of one batch are isolated: whichever calls fail, the item
\* of a symbol whose call succeeded holds the live record a call on its own
\* would have returned, the item of a symbol whose call failed holds a
\* simulated record, there is one item per symbol, and the settling of one
\* call leaves the results of the others as they were.
C26_FetchesIsolated ==
  /\ [](batchPc = "resolved" =>
         /\ Len(batchResult) = Len(batchSymbols)
         /\ \A i \in 1 .. Len(batchSymbols) :
              LET item == batchResult[i]
              IN /\ item.symbol = batchSymbols[i]
                 /\ tasks[i].path = "live" =>
                      \E t \in 0 .. now : t % PollInterval = 0
                                           /\ item.data = LiveRecord(batchSymbols[i], t)
                 /\ tasks[i].path = "mock" =>
                      /\ item.data.isLive = FALSE
                      /\ item.data.source = "Simulated (Rate Limited)"
                      /\ item.data.symbol = batchSymbols[i])
  /\ [][(batchPc = "awaiting" /\ batchPc' # "idle") =>
          \A j \in 1 .. Len(tasks) :
            tasks[j].state # "pending" => tasks'[j] = tasks[j]]_vars

\* a batch of two symbols: the call of the first failed, the call of the
\* second succeeded, and the second item holds the live record
C26_Witness ==
  /\ batchPc = "resolved"
  /\ Len(batchSymbols) = 2
  /\ alphaVantageKey
  /\ tasks[1].path = "mock"
  /\ tasks[2].path = "live"
  /\ batchResult[2].data = LiveRecord(batchSymbols[2], now)
  /\ batchResult[1].data.isLive = FALSE

(***************************************************************************)
(* The quote service with the key of its provider, when every provider     *)
(* call settles and every promise reaction runs.                           *)
(***************************************************************************)
InitFair == Init /\ alphaVantageKey /\ ~ finnhubKey

SpecFair ==
  /\ InitFair
  /\ [][Next]_vars
  /\ \A i \in 1 .. MaxBatch : WF_vars(FetchSettle(i))
  /\ WF_vars(BatchResolve)

\* C27: getBatchStockData starts one call per symbol before it awaits any
\* of them and resolves only when every one of them has settled: nothing
\* else, no timeout, ends the wait; when every provider call settles, the
\* batch resolves.
C27_AllSettledBarrier ==
  /\ [][QuoteCallStep =>
          /\ Len(tasks') = Len(batchSymbols')
          /\ \A i \in 1 .. Len(tasks') : tasks'[i].symbol = batchSymbols'[i]]_vars
  /\ [][(batchPc = "awaiting" /\ batchPc' # "awaiting") =>
          /\ batchPc' = "resolved"
          /\ \A i \in 1 .. Len(tasks) : tasks[i].state # "pending"]_vars
  /\ (batchPc = "awaiting") ~> (batchPc = "resolved")

\* two calls are pending at once
C27_Witness ==
  /\ batchPc = "awaiting"
  /\ Len(tasks) = 2
  /\ tasks[1].state = "pending"
  /\ tasks[2].state = "pending"

\* a batch resolved after its two provider calls had settled at different
\* times
C27_ResolvedWitness ==
  /\ batchPc = "resolved"
  /\ Len(tasks) = 2
  /\ tasks[1].path = "live" /\ tasks[2].path = "live"
  /\ tasks[1].value.timestamp # tasks[2].value.timestamp

\* the calls of the running batch for symbol s that returned a live record
LiveCalls(s) ==
  { i \in 1 .. Len(tasks) : tasks[i].symbol = s /\ tasks[i].path = "live" }

\* C28: calls for one symbol that overlap while the symbol has no valid cache
\* entry each ask the provider; when several succeed, the cache entry of the
\* symbol holds the record and the insertion time of the one that completed
\* last, and each caller gets the record its own call fetched.
C28_LastWriterWins ==
  /\ [][(QuoteCallStep /\ alphaVantageKey) =>
          \A i \in 1 .. Len(tasks') :
            ~ CacheValid(cache, tasks'[i].symbol, now) => tasks'[i].state = "pending"]_vars
  /\ [](\A s \in Symbols :
          LiveCalls(s) # {} =>
            /\ \E i \in LiveCalls(s) :
                 /\ cache[s] = [data |-> tasks[i].value,
                                 timestamp |-> tasks[i].value.timestamp]
                 /\ \A j \in LiveCalls(s) :
                      tasks[j].value.timestamp <= tasks[i].value.timestamp)
  /\ [](batchPc = "resolved" =>
          \A i \in 1 .. Len(tasks) :
            tasks[i].path = "live" => batchResult[i].data = tasks[i].value)

\* one batch asked twice for a symbol; both calls succeeded at different
\* times, the cache holds the later record and each item its own
C28_Witness ==
  /\ batchPc = "resolved"
  /\ Len(tasks) = 2
  /\ tasks[1].symbol = tasks[2].symbol
  /\ tasks[1].path = "live" /\ tasks[2].path = "live"
  /\ tasks[1].value.timestamp > tasks[2].value.timestamp
  /\ cache[tasks[1].symbol].data = tasks[1].value
  /\ batchResult[2].data = tasks[2].value
  /\ batchResult[1].data # batchResult[2].data

(***************************************************************************)
(* Properties of the cache of the alerts.                                  *)
(***************************************************************************)
\* the cache holds a simulated batch younger than 300 s
SimulatedCached ==
  /\ newsCache # Undefined
  /\ now - newsCache.timestamp < 300000
  /\ \A i \in 1 .. Len(newsCache.data) : ~ newsCache.data[i].isLive

\* C29: simulated alerts are cached: the batch getMarketAlerts falls back to
\* when the providers gave nothing is stored with the time of the call, and
\* every call in the 300 s that follow returns that list from the cache,
\* asking no provider, whatever the providers would answer by then.
C29_SimulatedAlertsCached ==
  /\ []((FreshReturn /\ newsReturn.union = <<>>) =>
          /\ newsCache # Undefined
          /\ newsCache.data = newsReturn.value
          /\ \A i \in 1 .. Len(newsCache.data) : ~ newsCache.data[i].isLive)
  /\ [][(NewsCallStep /\ SimulatedCached) =>
          /\ newsPc' = "idle"
          /\ newsReturn' = [value |-> newsCache.data, path |-> "cache"]
          /\ newsCache' = newsCache]_vars

\* a provider has a key and articles; its call failed, the simulated batch
\* was cached, and a call half a lifetime later got the batch from the cache
C29_Witness ==
  /\ alphaVantageKey /\ avFeed # <<>>
  /\ newsPc = "idle"
  /\ newsReturn # Undefined /\ newsReturn.path = "cache"
  /\ SimulatedCached
  /\ newsReturn.value = newsCache.data
  /\ now - newsCache.timestamp = NewsStep

(***************************************************************************)
(* FinancialAnalystDashboard: the generation of a report.                  *)
(***************************************************************************)
\* without REACT_APP_OPENAI_API_KEY the constructor of AIFinancialService
\* throws: aiService is null and aiError holds the message
DashboardWithoutService ==
  [DashboardStart EXCEPT !.aiService = FALSE,
                         !.aiError = Str(Literal.keyRequired)]

\* the stocks that are selected
DashboardStocks ==
  { stock \in Stocks : stock.symbol \in {<<"A", "A", "P", "L">>, <<"X", "O", "M">>} }

\* what the completion call of a report answers with: the failures and two
\* short texts
DashboardOutcomes ==
  { o \in CompletionOutcomes :
      \/ o.kind = "rejected"
      \/ o.choices = <<>>
      \/ o.choices[1].message.content = Null
      \/ o.choices[1].message.content.chars \in {Contents[3], Contents[7]} }

\* as AfterReport, closing the report shown when the call fails
AfterReportClosing(state, r) ==
  IF r.threw
  THEN [state EXCEPT !.generatedReport = Null,
                     !.aiError = Str(r.error.message),
                     !.isGeneratingReport = FALSE]
  ELSE [state EXCEPT !.generatedReport = r.value,
                     !.isGeneratingReport = FALSE]

\* generateReport from the await on: try, catch and finally; r is what
\* generateStockAnalysis returned or threw
AfterReport(state, r) ==
  IF r.threw
  THEN [state EXCEPT !.aiError = Str(r.error.message),
                     !.isGeneratingReport = FALSE]
  ELSE [state EXCEPT !.generatedReport = r.value,
                     !.isGeneratingReport = FALSE]

\* selectStock(stock) and the click on a stock of the list
SelectStock(stock) ==
  /\ dashboard' = [dashboard EXCEPT !.selectedStock = stock]
  /\ UNCHANGED <<now, alphaVantageKey, quoteVars, newsVars, aiCall, helperCall>>

\* generateReport is called while no report is being generated: up to its
\* return or to its await
GenerateReport ==
  /\ ~ dashboard.isGeneratingReport
  /\ IF dashboard.selectedStock = Null
     THEN /\ dashboard' = [dashboard EXCEPT !.alert = Str(Literal.selectStockFirst)]
          /\ UNCHANGED aiCall
     ELSE IF ~ dashboard.aiService
     THEN /\ dashboard' = [dashboard EXCEPT !.aiError = Str(Literal.aiUnavailable)]
          /\ UNCHANGED aiCall
     ELSE /\ dashboard' = [dashboard EXCEPT !.isGeneratingReport = TRUE,
                                             !.aiError = Null]
          /\ aiCall' = [state |-> "pending", stock |-> dashboard.selectedStock]
  /\ UNCHANGED <<now, alphaVantageKey, quoteVars, newsVars, helperCall>>

\* the completion call settles, generateStockAnalysis returns or throws and
\* generateReport runs to its end
ReportSettle ==
  /\ dashboard.isGeneratingReport
  /\ aiCall.state = "pending"
  /\ \E outcome \in DashboardOutcomes, d \in ReportDraws :
       LET r == generateStockAnalysis(aiCall.stock, outcome, d, now)
       IN /\ aiCall' = [state |-> "settled", stock |-> aiCall.stock,
                        outcome |-> outcome, result |-> r]
          /\ dashboard' = AfterReport(dashboard, r)
  /\ UNCHANGED <<now, alphaVantageKey, quoteVars, newsVars, helperCall>>

\* the Dismiss button of the error
DismissError ==
  /\ dashboard.aiError # Null
  /\ dashboard' = [dashboard EXCEPT !.aiError = Null]
  /\ UNCHANGED <<now, alphaVantageKey, quoteVars, newsVars, aiCall, helperCall>>

\* the Close button of the report
CloseReport ==
  /\ dashboard.generatedReport # Null
  /\ dashboard' = [dashboard EXCEPT !.generatedReport = Null]
  /\ UNCHANGED <<now, alphaVantageKey, quoteVars, newsVars, aiCall, helperCall>>

InitDashboard ==
  /\ now = 0
  /\ alphaVantageKey = FALSE
  /\ finnhubKey = FALSE
  /\ avFeed = <<>>
  /\ fhFeed = <<>>
  /\ cache = [s \in Symbols |-> Undefined]
  /\ batchPc = "idle"
  /\ batchSymbols = <<>>
  /\ tasks = <<>>
  /\ batchResult = <<>>
  /\ newsCache = Undefined
  /\ newsPc = "idle"
  /\ alerts = <<>>
  /\ newsReturn = Undefined
  /\ aiCall = [state |-> "idle"]
  /\ helperCall = [fn |-> "none"]
  /\ dashboard \in {DashboardStart, DashboardWithoutService}

NextDashboard ==
  \/ \E stock \in DashboardStocks : SelectStock(stock)
  \/ GenerateReport
  \/ ReportSettle
  \/ DismissError
  \/ CloseReport

SpecDashboard == InitDashboard /\ [][NextDashboard]_vars

\* C30: generateReport with a stock selected and an AI service sets
\* isGeneratingReport and clears aiError before it calls the service, and
\* resets isGeneratingReport after either outcome; when the call fails,
\* aiError holds the message of the error and generatedReport keeps its
\* value; when it succeeds, generatedReport is the new report and aiError
\* stays null.  With no stock selected or no AI service, isGeneratingReport
\* and generatedReport are left as they were.
C30_GenerateReportFrame ==
  /\ [][(~ dashboard.isGeneratingReport /\ dashboard'.isGeneratingReport) =>
          /\ dashboard.selectedStock # Null /\ dashboard.aiService
          /\ dashboard'.aiError = Null
          /\ aiCall' = [state |-> "pending", stock |-> dashboard.selectedStock]
          /\ dashboard'.generatedReport = dashboard.generatedReport]_vars
  /\ [][(dashboard.isGeneratingReport /\ aiCall'.state = "settled") =>
          /\ ~ dashboard'.isGeneratingReport
          /\ IF aiCall'.result.threw
             THEN /\ dashboard'.aiError = Str(aiCall'.result.error.message)
                  /\ dashboard'.generatedReport = dashboard.generatedReport
             ELSE /\ dashboard'.generatedReport = aiCall'.result.value
                  /\ dashboard'.aiError = Null]_vars
  /\ [](dashboard.isGeneratingReport => aiCall.state = "pending")
  /\ [][(dashboard.selectedStock = Null \/ ~ dashboard.aiService) =>
          /\ dashboard'.isGeneratingReport = dashboard.isGeneratingReport
          /\ dashboard'.generatedReport = dashboard.generatedReport]_vars

\* a report is shown, the next call failed: the error is shown and the
\* report is still there
C30_Witness ==
  /\ ~ dashboard.isGeneratingReport
  /\ aiCall.state = "settled"
  /\ aiCall.result.threw
  /\ dashboard.aiError = Str(aiCall.result.error.message)
  /\ dashboard.generatedReport # Null

\* generateReport was called with no stock selected, and without a service
C30_GuardWitness ==
  /\ dashboard.alert # Null
  /\ ~ dashboard.aiService
  /\ dashboard.aiError = Str(Literal.aiUnavailable)
  /\ dashboard.generatedReport = Null

\* an error was shown, and the next call succeeded
C30_SuccessWitness ==
  /\ ~ dashboard.isGeneratingReport
  /\ aiCall.state = "settled" /\ ~ aiCall.result.threw
  /\ dashboard.generatedReport = aiCall.result.value
  /\ dashboard.aiError = Null

====
